---- MODULE Spec2Model ----
(***************************************************************************)
(* Deployment pre-flight and teardown of the agentcore CLI:                *)
(*   - identity provisioning, setupApiKeyProviders                         *)
(*     (src/cli/operations/deploy/pre-deploy-identity.ts), under Spec;     *)
(*   - stack discovery and teardown, discoverDeployedTargets and           *)
(*     destroyTarget (src/cli/operations/destroy/index.ts), under          *)
(*     SpecDestroy.                                                        *)
(*                                                                         *)
(* These are async functions: each runs on one thread and is suspended at  *)
(* each await.  An action of this model is one segment of a function       *)
(* between two awaits: the answer of the call in flight, followed by the   *)
(* code that runs until the next call is sent.                             *)
(***************************************************************************)
EXTENDS Integers, Sequences, FiniteSets, TLC

\* Number of invocations of setupApiKeyProviders a behaviour contains.
MaxRuns == 2

\* ------------------------------------------------------------------ values

\* "no ARN" (undefined), the ARN a vault held before the first run, the ARN
\* recorded in the project, and the ARN of the n-th key CreateKey made.
NoArn == <<"none", 0>>
ExistingArn == <<"existing", 0>>
RecordedArn == <<"recorded", 0>>
NewArn(n) == <<"new", n>>

\* undefined, as the value of a secret
Undef == "<undefined>"

\* error texts are sequences of fragments; <<>> is `error: undefined`
NoError == <<>>

Ref(n, r, v, e) == [name |-> n, relation |-> r, variant |-> v, envVarName |-> e]

OwnCred1 == Ref("Cred1", "own", "ApiKeyCredentialProvider", "CRED1_KEY")
OwnCred2 == Ref("Cred2", "own", "ApiKeyCredentialProvider", "CRED2_KEY")
UseCred2 == Ref("Cred2", "use", "ApiKeyCredentialProvider", "CRED2_KEY")
OwnOAuth == Ref("OAuth1", "own", "OAuthCredentialProvider", "OAUTH1_KEY")

Agent(n, ps) == [name |-> n, identityProviders |-> ps]

\* The agents arrays the project is drawn from.
AgentLists ==
    { <<>>,
      << Agent("A", <<OwnCred1>>) >>,
      << Agent("A", <<OwnCred1>>), Agent("B", <<OwnCred2>>) >>,
      << Agent("A", <<UseCred2, OwnCred1, OwnOAuth>>), Agent("B", <<OwnCred2>>) >>,
      << Agent("A", <<>>), Agent("B", <<OwnCred1, OwnCred2>>) >> }

EnvVarNames == {"CRED1_KEY", "CRED2_KEY", "OAUTH1_KEY"}
ProviderNames == {"Cred1", "Cred2"}

\* agentcore/.env.local: each secret is absent, empty (`KEY=`) or set.
EnvFiles ==
    { f \in [EnvVarNames -> {Undef, "", "sk-env"}] :
        /\ f["OAUTH1_KEY"] = Undef
        /\ f["CRED2_KEY"] # "" }

\* options.runtimeCredentials: not given, or a map defining CRED1_KEY, as a
\* secret or as the empty string.
NoRuntime == [k \in EnvVarNames |-> Undef]
RuntimeCredentials ==
    { NoRuntime, [NoRuntime EXCEPT !["CRED1_KEY"] = "sk-rt"],
      [NoRuntime EXCEPT !["CRED1_KEY"] = ""] }

\* The token vault as GetTokenVault sees it: no vault yet (the lookup throws),
\* a service-managed key, a customer-managed key with or without an ARN.
Vault(t, a) == [keyType |-> t, kmsKeyArn |-> a]
InitialVaults ==
    { Vault("NotFound", NoArn), Vault("ServiceManagedKey", NoArn),
      Vault("CustomerManagedKey", NoArn), Vault("CustomerManagedKey", ExistingArn) }

VARIABLES
    projectSpec,      \* [agents, identityKmsKeyArn]
    envFile,          \* agentcore/.env.local
    remoteProviders,  \* names of the API-key providers AgentCore Identity holds
    tokenVault,       \* the token vault's KMS configuration
    kmsKeys,          \* number of keys CreateKey has made
    pc,               \* where setupApiKeyProviders is suspended
    runNo,            \* invocations started so far
    options,          \* [enableKmsEncryption, runtimeCredentials] of this run
    allCredentials,   \* the merged credentials of this run
    keyArn,           \* setupTokenVaultKms: keyArn
    kmsKeyArn,        \* setupApiKeyProviders: kmsKeyArn
    results,          \* setupApiKeyProviders: results
    agentResults,     \* setupAgentIdentityProviders: results
    ai, pi,           \* loop positions: agent, provider of the agent
    inflight,         \* remote calls sent and not yet answered
    calls,            \* remote calls of this run, answered, in order
    ret,              \* the value the run returned (when pc = "done")
    atStart,          \* remote state when this run started
    everCreated,      \* names of the providers createApiKeyProvider has made
    killed            \* the run before this one, if the process was terminated in it

idVars == << projectSpec, envFile, remoteProviders, tokenVault, kmsKeys, pc, runNo,
             options, allCredentials, keyArn, kmsKeyArn, results, agentResults,
             ai, pi, inflight, calls, ret, atStart, everCreated, killed >>

project == << projectSpec, envFile >>
remote == << remoteProviders, tokenVault, kmsKeys >>
history == << atStart, everCreated, killed >>

\* ------------------------------------------------- discovery and teardown

MaxOps == 2                       \* calls of discoverDeployedTargets and destroyTarget

TargetNames == {"dev", "prod"}
\* The name of the stack of a target, as stack discovery reports it.
StackNameOf(name) == <<"stack", name>>
DiscoveredStack(name) == [stackName |-> StackNameOf(name)]
NoStack == [stackName |-> <<>>]
\* aws-targets.json: the configured targets, in order.
TargetLists == { <<>>, <<"dev">>, <<"prod">>, <<"dev", "prod">>, <<"prod", "dev">> }
\* The value of options.target: DeployedTarget {target, stack}.
DeployedTarget(name, stack) == [target |-> [name |-> name], stack |-> stack]
CdkProjectDirs == {"agentcore/cdk", "elsewhere/cdk"}
NoDestroyOptions == [target |-> DeployedTarget("", NoStack), cdkProjectDir |-> ""]
NoEntry == <<>>

VARIABLES
    targets,          \* aws-targets.json
    remoteStacks,     \* names of the stacks CloudFormation holds
    deployedState,    \* deployed-state.json: target name -> entry
    dirs,             \* the directories that exist
    operation,        \* the function that runs or has run: "discover" or "destroy"
    at,               \* the await it is suspended at, or how it ended
    opNo,             \* number of calls so far
    ti,               \* index of `for (const target of targets)`
    deployedTargets,  \* the list discoverDeployedTargets builds and returns
    destroyOptions,   \* the argument of destroyTarget
    log,              \* the answered lookups, toolkit calls and state-file accesses
    thrown,           \* the error the call was rejected with
    stateBefore       \* deployedState when the call started

teardown == << targets, remoteStacks, deployedState, dirs, operation, at, opNo, ti,
               deployedTargets, destroyOptions, log, thrown, stateBefore >>

\* ------------------------------------------------------- resource graph

MaxChanges == 4                   \* add, bind and remove operations on the project

Kinds == {"identity", "memory"}
AgentNames == {"A", "B"}
\* Names given on the command line: none, and two that differ in case only.
ResourceNames == {"", "M", "m"}
NoAgent == "<none>"
Credential(name) == [name |-> name, type |-> "ApiKeyCredentialProvider"]
Memory(name) == [name |-> name, strategies |-> <<"SEMANTIC">>]
\* A reference an agent holds to a resource: `own`, or `use` with an access.
Reference(name, relation, access) == [name |-> name, relation |-> relation, access |-> access]
AgentEnv(name) == [name |-> name, identityProviders |-> <<>>, memoryProviders |-> <<>>]
\* createDefaultProjectSpec: no agents, memories or credentials.
EmptyProject == [agents |-> <<>>, memories |-> <<>>, credentials |-> <<>>]
NoResult == [success |-> TRUE, exitCode |-> 0, error |-> NoError]
NoCommand == [op |-> "none", kind |-> "", name |-> "", agent |-> NoAgent, force |-> FALSE,
              result |-> NoResult]

VARIABLES
    agentcoreJson,    \* agentcore/agentcore.json, the persisted project specification
    specBefore,       \* agentcoreJson when the last operation started
    command,          \* the last operation, with its arguments and its result
    changes           \* number of operations so far

graph == << agentcoreJson, specBefore, command, changes >>

\* FlowState of AddIdentityFlow and AddMemoryFlow; bind-select-resource is
\* bind-select-identity or bind-select-memory.
FlowState(name, targetAgent, resourceName, access) ==
    [name |-> name, targetAgent |-> targetAgent, resourceName |-> resourceName,
     access |-> access]
NoFlow == FlowState("", "", "", "")

VARIABLES
    flowKind,         \* the flow that is open: "identity", "memory", or "none"
    flow              \* its FlowState

flows == << flowKind, flow >>

\* ------------------------------------------------------------ remove flow

MaxConfirms == 2                  \* calls of confirmRemoval in one flow

\* agentcore.json as the remove flow finds it: absent, unreadable, or a
\* project specification.
ProjectSpecOf(name, agents, memories, credentials) ==
    [name |-> name, version |-> 1, agents |-> agents, memories |-> memories,
     credentials |-> credentials]
NoProject == [ProjectSpecOf("<no project>", <<>>, <<>>, <<>>) EXCEPT !.version = 0]
Corrupted == [ProjectSpecOf("<corrupted>", <<>>, <<>>, <<>>) EXCEPT !.version = 0]
ProjectFiles ==
    { NoProject, Corrupted,
      ProjectSpecOf("P", <<>>, <<>>, <<>>),
      ProjectSpecOf("P", <<"A", "B">>, <<"M">>, <<>>) }

RemoveFlowOptions == [force : BOOLEAN, dryRun : BOOLEAN]

VARIABLES
    removeOptions,    \* {force, dryRun}, the argument of useRemoveFlow
    projectFile,      \* agentcore.json of the project being reset
    phase,            \* useState: phase
    steps,            \* useState: steps
    itemsToRemove,    \* useState: itemsToRemove
    hasDeployedResources, \* useState: hasDeployedResources
    projectName,      \* useState: projectName
    cp,               \* the await checkProject is suspended at
    currentProjectName, \* checkProject: currentProjectName
    rti,              \* checkProject: index of `for (const target of targets)`
    effectDeps,       \* [phase, projectName] when the removal effect last ran
    runs,             \* runRemoval calls so far
    inFlightWrites,   \* writeProjectSpec calls sent and not yet answered
    writeLog,         \* writeProjectSpec calls answered, in order
    confirmCalls      \* confirmRemoval calls so far

removeVars == << removeOptions, projectFile, phase, steps, itemsToRemove,
                 hasDeployedResources, projectName, cp, currentProjectName, rti,
                 effectDeps, runs, inFlightWrites, writeLog, confirmCalls >>

\* No remove flow is mounted.
RemoveQuiet ==
    /\ removeOptions = [force |-> FALSE, dryRun |-> FALSE]
    /\ projectFile = NoProject
    /\ phase = "unmounted"
    /\ steps = <<>>
    /\ itemsToRemove = <<>>
    /\ hasDeployedResources = FALSE
    /\ projectName = ""
    /\ cp = "ended"
    /\ currentProjectName = ""
    /\ rti = 1
    /\ effectDeps = << "unmounted", "" >>
    /\ runs = 0
    /\ inFlightWrites = {}
    /\ writeLog = <<>>
    /\ confirmCalls = 0

\* ------------------------------------------------------------- dev config

\* `undefined` as the agentName argument, and the names given.
NoName == "<undefined>"
DevAgentNames == {NoName, "", "A", "C"}

\* agent.runtime: CodeZip with or without an entrypoint, or ContainerImage.
Runtime(artifact, entrypoint, codeLocation) ==
    [artifact |-> artifact, entrypoint |-> entrypoint, codeLocation |-> codeLocation]
Runtimes ==
    { Runtime("CodeZip", "main.py:app", <<"app">>),
      Runtime("CodeZip", "main.py:app", <<"/", "srv", "app", "">>),
      Runtime("CodeZip", "", <<"app">>),
      Runtime("ContainerImage", "", <<>>) }
DevAgent(name, targetLanguage, runtime) ==
    [name |-> name, targetLanguage |-> targetLanguage, runtime |-> runtime]
DevAgents(name) ==
    { DevAgent(name, l, r) : l \in {"Python", "TypeScript"}, r \in Runtimes }

\* The project argument: null, or a project with its agents in order.
Loaded(agents) == [loaded |-> TRUE, agents |-> agents]
NullProject == [loaded |-> FALSE, agents |-> <<>>]
DevProjects ==
    {NullProject} \cup {Loaded(<<>>)}
    \cup { Loaded(<<a>>) : a \in DevAgents("A") }
    \cup { Loaded(<<b, a>>) : b \in DevAgents("B"), a \in DevAgents("A") }

\* Paths are sequences of segments, an absolute one starting with "/" and
\* one with a trailing slash ending with ""; configRoot may be undefined.
NoRoot == << "<undefined>" >>
WorkingDir == << "home", "proj" >>
ConfigRoots == { NoRoot, << "home", "proj", "agentcore" >> }

DevConfig(name, mod, directory, hasConfig, isPython) ==
    [agentName |-> name, module |-> mod, directory |-> directory,
     hasConfig |-> hasConfig, isPython |-> isPython]
NoDevConfig == DevConfig(<<>>, "", <<>>, FALSE, FALSE)
NoDevArgs == [workingDir |-> <<>>, project |-> NullProject, configRoot |-> NoRoot,
              agentName |-> NoName]

VARIABLES
    devArgs,          \* the arguments of getDevConfig
    devCall           \* how the call ended: "none", "returned" or "thrown"; its value or error

devVars == << devArgs, devCall >>

DevQuiet ==
    /\ devArgs = NoDevArgs
    /\ devCall = [ended |-> "none", config |-> NoDevConfig, error |-> NoError]

\* ------------------------------------------------------------ SecretInput

LINE_WIDTH == 52

MaxShort == 2                     \* values up to this length hold any characters
MaxLong == 105                    \* longer values, up to this length, repeat one character

SecretProps(maskChar, revealChars) == [maskChar |-> maskChar, revealChars |-> revealChars]

VARIABLES
    secretProps,      \* the props maskChar and revealChars
    value,            \* useTextInput: value
    cursor,           \* useTextInput: cursor
    showValue,        \* useState: showValue
    twin,             \* a second secret, of the length of value
    screen,           \* the lines rendered for value
    twinScreen        \* the lines rendered for twin in the same state

secretVars == << secretProps, value, cursor, showValue, twin, screen, twinScreen >>

SecretQuiet ==
    /\ secretProps = SecretProps("*", 0)
    /\ value = <<>>
    /\ cursor = 0
    /\ showValue = FALSE
    /\ twin = <<>>
    /\ screen = <<>>
    /\ twinScreen = <<>>

\* The state of the screens and components outside the flows above.
ui == << removeVars, devVars, secretVars >>
UiQuiet == RemoveQuiet /\ DevQuiet /\ SecretQuiet

vars == << idVars, teardown, graph, flows, ui >>

\* No flow is open.
FlowQuiet ==
    /\ flowKind = "none"
    /\ flow = NoFlow

\* The project is not edited.
GraphQuiet ==
    /\ agentcoreJson = EmptyProject
    /\ specBefore = EmptyProject
    /\ command = NoCommand
    /\ changes = 0

\* Nothing is deployed or configured and no teardown call is made.
TeardownQuiet ==
    /\ targets = <<>>
    /\ remoteStacks = {}
    /\ deployedState = [n \in TargetNames |-> NoEntry]
    /\ dirs = {}
    /\ operation = "none"
    /\ at = "idle"
    /\ opNo = 0
    /\ ti = 1
    /\ deployedTargets = <<>>
    /\ destroyOptions = NoDestroyOptions
    /\ log = <<>>
    /\ thrown = NoError
    /\ stateBefore = deployedState

\* ------------------------------------------------------------ collaborators

\* SecureCredentials.merge: get(key) prefers the override when it defines key.
Merge(primary, override) ==
    [k \in EnvVarNames |-> IF override[k] # Undef THEN override[k] ELSE primary[k]]

\* A remote call: the operation, the provider it is for (agent, name), and
\* the key ARN or the API key it carries.
Call(op, agent, name, arn) ==
    [op |-> op, agent |-> agent, name |-> name, arn |-> arn, apiKey |-> Undef]
CreateCall(agent, name, apiKey) ==
    [op |-> "createApiKeyProvider", agent |-> agent, name |-> name, arn |-> NoArn,
     apiKey |-> apiKey]
Answered(call, outcome) ==
    [op |-> call.op, agent |-> call.agent, name |-> call.name, arn |-> call.arn,
     apiKey |-> call.apiKey, outcome |-> outcome]

\* `await call`: the function goes on when the call in flight has answered.
NotAwaited(pending, call) == pending
Awaited(pending, call) == pending \ {call}

\* `!x` of JavaScript for a string or undefined
Falsy(x) == x = Undef \/ x = ""

NoReturn == [results |-> <<>>, hasErrors |-> FALSE, kmsKeyArn |-> NoArn]
NoOptions == [enableKmsEncryption |-> FALSE, runtimeCredentials |-> NoRuntime]
NotKilled == [was |-> FALSE, created |-> {}, runtimeCredentials |-> NoRuntime]

Result(agentName, providerName, status, error) ==
    [agentName |-> agentName, providerName |-> providerName, status |-> status,
     error |-> error]

\* ------------------------------------------------------------------- Init

Init ==
    /\ projectSpec \in [agents : AgentLists, identityKmsKeyArn : {NoArn, RecordedArn}]
    /\ envFile \in EnvFiles
    /\ remoteProviders \in SUBSET ProviderNames
    /\ tokenVault \in InitialVaults
    /\ kmsKeys = 0
    /\ pc = "idle"
    /\ runNo = 0
    /\ options = NoOptions
    /\ allCredentials = NoRuntime
    /\ keyArn = NoArn
    /\ kmsKeyArn = NoArn
    /\ results = <<>>
    /\ agentResults = <<>>
    /\ ai = 1
    /\ pi = 1
    /\ inflight = {}
    /\ calls = <<>>
    /\ ret = NoReturn
    /\ atStart = [remoteProviders |-> remoteProviders, tokenVault |-> tokenVault,
                 kmsKeys |-> kmsKeys]
    /\ everCreated = {}
    /\ killed = NotKilled
    /\ TeardownQuiet
    /\ GraphQuiet
    /\ FlowQuiet
    /\ UiQuiet

\* --------------------------------------------------- setupApiKeyProviders

\* The early return of a failed KMS step (lines 61-73).
KmsFailure(error) ==
    [results |-> << Result("", "TokenVault", "error", <<"Failed to configure KMS: ">> \o error) >>,
     hasErrors |-> TRUE,
     kmsKeyArn |-> NoArn]

\* Line 59: enableKmsEncryption || projectSpec.identityKmsKeyArn
AlwaysKms(enableKmsEncryption) == TRUE
OnlyWhenEnabled(enableKmsEncryption) == enableKmsEncryption
KmsRequested(enableKmsEncryption) ==
    enableKmsEncryption \/ projectSpec.identityKmsKeyArn # NoArn

\* Lines 50-53: runtimeCredentials ? envCredentials.merge(runtimeCredentials)
\* : envCredentials
IgnoreRuntime(envVars, runtimeCredentials) == envVars
ResolveCredentials(envVars, runtimeCredentials) ==
    IF runtimeCredentials # NoRuntime THEN Merge(envVars, runtimeCredentials)
    ELSE envVars

\* Lines 45-59: read .env.local, merge the runtime credentials over it, and
\* enter the KMS step when encryption is asked for or a key ARN is recorded.
Invoke(enableKmsEncryption, runtimeCredentials) ==
    /\ pc \in {"idle", "done", "rejected"}
    /\ runNo < MaxRuns
    /\ runNo' = runNo + 1
    /\ options' = [enableKmsEncryption |-> enableKmsEncryption,
                   runtimeCredentials |-> runtimeCredentials]
    /\ allCredentials' = ResolveCredentials(envFile, runtimeCredentials)
    /\ results' = <<>>
    /\ agentResults' = <<>>
    /\ kmsKeyArn' = NoArn
    /\ keyArn' = NoArn
    /\ ai' = 1
    /\ pi' = 1
    /\ calls' = <<>>
    /\ ret' = NoReturn
    /\ atStart' = [remoteProviders |-> remoteProviders, tokenVault |-> tokenVault,
                  kmsKeys |-> kmsKeys]
    /\ pc' = IF KmsRequested(enableKmsEncryption) THEN "kms" ELSE "agents"
    /\ killed' = IF pc = "idle" THEN killed ELSE NotKilled
    /\ UNCHANGED << ui, flows, graph, teardown, project, remote, inflight, everCreated >>

\* Line 98: !keyArn, with keyArn the ARN the project records
NeverNewKey(recorded) == FALSE
NeedsNewKey(recorded) == recorded = NoArn

\* Lines 61-73: a failed KMS step returns at once.
GoOnAfterKmsFailure == "agents"
AfterKmsFailure == "done"

\* setupTokenVaultKms, lines 94-114: take the recorded ARN; without one send
\* CreateKey, with one go straight to setTokenVaultKmsKey.
KmsStart ==
    /\ pc = "kms"
    /\ keyArn' = projectSpec.identityKmsKeyArn
    /\ IF NeedsNewKey(projectSpec.identityKmsKeyArn)
       THEN /\ inflight' = inflight \cup {Call("CreateKey", "", "", NoArn)}
            /\ pc' = "kmsCreate"
       ELSE /\ inflight' = inflight \cup
                   {Call("SetTokenVaultKmsKey", "", "", projectSpec.identityKmsKeyArn)}
            /\ pc' = "kmsSet"
    /\ UNCHANGED << ui, flows, graph, teardown, project, remote, runNo, options, allCredentials, kmsKeyArn,
                    results, agentResults, ai, pi, calls, ret, history >>

\* Lines 100-114 after CreateKey answers: an ARN goes on to the vault, a
\* response without ARN or a throw fails the KMS step (lines 107-109, 120-122).
KmsCreateKeyReturn(outcome) ==
    /\ pc = "kmsCreate"
    /\ \E c \in inflight :
        /\ c.op = "CreateKey"
        /\ calls' = Append(calls, Answered(c, outcome))
        /\ CASE outcome = "ok" ->
                  /\ kmsKeys' = kmsKeys + 1
                  /\ keyArn' = NewArn(kmsKeys + 1)
                  /\ inflight' = Awaited(inflight, c) \cup
                        {Call("SetTokenVaultKmsKey", "", "", NewArn(kmsKeys + 1))}
                  /\ pc' = "kmsSet"
                  /\ ret' = ret
             [] outcome = "noarn" ->
                  /\ kmsKeys' = kmsKeys
                  /\ keyArn' = NoArn
                  /\ inflight' = Awaited(inflight, c)
                  /\ pc' = AfterKmsFailure
                  /\ ret' = KmsFailure(<<"Failed to create KMS key">>)
             [] outcome = "throw" ->
                  /\ kmsKeys' = kmsKeys
                  /\ keyArn' = keyArn
                  /\ inflight' = Awaited(inflight, c)
                  /\ pc' = AfterKmsFailure
                  /\ ret' = KmsFailure(<<"KmsError">>)
    /\ UNCHANGED << ui, flows, graph, teardown, project, remoteProviders, tokenVault, runNo, options,
                    allCredentials, kmsKeyArn, results, agentResults, ai, pi, history >>

\* Lines 112-122 after setTokenVaultKmsKey answers: success ends the KMS step
\* with the key ARN (line 74); {success: false} or a throw fails it.
KmsSetVaultReturn(outcome) ==
    /\ pc = "kmsSet"
    /\ \E c \in inflight :
        /\ c.op = "SetTokenVaultKmsKey"
        /\ inflight' = Awaited(inflight, c)
        /\ calls' = Append(calls, Answered(c, outcome))
        /\ CASE outcome = "ok" ->
                  /\ tokenVault' = Vault("CustomerManagedKey", c.arn)
                  /\ kmsKeyArn' = keyArn
                  /\ pc' = "agents"
                  /\ ret' = ret
             [] outcome = "fail" ->
                  /\ tokenVault' = tokenVault
                  /\ kmsKeyArn' = kmsKeyArn
                  /\ pc' = AfterKmsFailure
                  /\ ret' = KmsFailure(<<"SetTokenVaultFailed">>)
             [] outcome = "throw" ->
                  /\ tokenVault' = tokenVault
                  /\ kmsKeyArn' = kmsKeyArn
                  /\ pc' = AfterKmsFailure
                  /\ ret' = KmsFailure(<<"VaultError">>)
    /\ UNCHANGED << ui, flows, graph, teardown, project, remoteProviders, kmsKeys, runNo, options, allCredentials,
                    keyArn, results, agentResults, ai, pi, history >>

\* Line 84: results.some(r => r.status === 'error')
HasNotCreated(rs) == \E i \in 1..Len(rs) : rs[i].status \in {"error", "skipped"}
HasErrors(rs) == \E i \in 1..Len(rs) : rs[i].status = "error"

\* Line 132: agent.identityProviders.filter(p => p.relation === 'own')
AnyRelation(p) == TRUE
IsOwn(p) == p.relation = "own"
OwnedProviders(agent) == SelectSeq(agent.identityProviders, IsOwn)

\* Line 135: provider.variant === 'ApiKeyCredentialProvider'
IsApiKey(p) == p.variant = "ApiKeyCredentialProvider"

\* Line 79: results.push(...agentResults)
KeepLast(rs, more) == more
PushAll(rs, more) == rs \o more

\* Lines 77-86: the loop over projectSpec.agents.  With an agent left, enter
\* setupAgentIdentityProviders for it; with none left, return the result.
AgentsLoop ==
    /\ pc = "agents"
    /\ IF ai <= Len(projectSpec.agents)
       THEN /\ agentResults' = <<>>
            /\ pi' = 1
            /\ pc' = "providers"
            /\ ret' = ret
       ELSE /\ ret' = [results |-> results, hasErrors |-> HasErrors(results),
                       kmsKeyArn |-> kmsKeyArn]
            /\ pc' = "done"
            /\ UNCHANGED << agentResults, pi >>
    /\ UNCHANGED << ui, flows, graph, teardown, project, remote, runNo, options, allCredentials, keyArn, kmsKeyArn,
                    results, ai, inflight, calls, history >>

\* The skipped result of lines 153-160.
SkippedAsError(agentName, provider) ==
    Result(agentName, provider.name, "error",
           <<"No ", provider.envVarName, " found in agentcore/.env.local">>)
Skipped(agentName, provider) ==
    Result(agentName, provider.name, "skipped",
           <<"No ", provider.envVarName, " found in agentcore/.env.local">>)

\* Lines 134-141 and 151-163: one turn of the loop over the owned providers.
\* Past the last one the agent's results are pushed (line 79); a provider of
\* another variant is passed over; one without a secret is skipped; for one
\* with a secret apiKeyProviderExists is sent.
ProvidersLoop ==
    /\ pc = "providers"
    /\ LET agent == projectSpec.agents[ai]
           owned == OwnedProviders(agent)
       IN  IF pi > Len(owned)
           THEN /\ results' = PushAll(results, agentResults)
                /\ ai' = ai + 1
                /\ pc' = "agents"
                /\ UNCHANGED << agentResults, pi, inflight >>
           ELSE IF ~IsApiKey(owned[pi])
           THEN /\ pi' = pi + 1
                /\ UNCHANGED << results, agentResults, ai, pc, inflight >>
           ELSE IF Falsy(allCredentials[owned[pi].envVarName])
           THEN /\ agentResults' = Append(agentResults, Skipped(agent.name, owned[pi]))
                /\ pi' = pi + 1
                /\ UNCHANGED << results, ai, pc, inflight >>
           ELSE /\ inflight' = inflight \cup
                      {Call("apiKeyProviderExists", agent.name, owned[pi].name, NoArn)}
                /\ pc' = "exists"
                /\ UNCHANGED << results, agentResults, ai, pi >>
    /\ UNCHANGED << ui, flows, graph, teardown, project, remote, runNo, options, allCredentials, keyArn, kmsKeyArn,
                    calls, ret, history >>

\* Lines 175-189: the message of a caught error.
AwsCredentialsMessage ==
    <<"AWS credentials not found. Run aws sso login or set AWS_ACCESS_KEY_ID/AWS_SECRET_ACCESS_KEY.">>
NeverRewritten(outcome) == <<"RemoteError">>
CaughtError(outcome) ==
    IF outcome = "nocreds"
    THEN AwsCredentialsMessage
    ELSE <<"RemoteError">>

\* Lines 164-166: an existing provider is not created again.
AlwaysCreate(exists) == "create"
AfterExists(exists) == IF exists THEN "exists" ELSE "create"

\* Lines 162 and 175: the try block encloses both calls and the catch has no
\* condition, so every throw is caught.
RethrowsUnclassified(outcome) == outcome = "nocreds"
Caught(outcome) == TRUE

\* Lines 163-168 after apiKeyProviderExists answers: an existing provider is
\* reported `exists`, for an absent one createApiKeyProvider is sent with the
\* API key of line 151, a throw becomes the provider's `error` result.
ExistsReturn(outcome) ==
    /\ pc = "exists"
    /\ \E c \in inflight :
        /\ c.op = "apiKeyProviderExists"
        /\ calls' = Append(calls, Answered(c, outcome))
        /\ IF outcome = "ok"
           THEN IF AfterExists(c.name \in remoteProviders) = "exists"
                THEN /\ agentResults' = Append(agentResults,
                                               Result(c.agent, c.name, "exists", NoError))
                     /\ inflight' = Awaited(inflight, c)
                     /\ pi' = pi + 1
                     /\ pc' = "providers"
                ELSE /\ inflight' = Awaited(inflight, c) \cup
                           {CreateCall(c.agent, c.name,
                              allCredentials[OwnedProviders(projectSpec.agents[ai])[pi].envVarName])}
                     /\ pc' = "create"
                     /\ UNCHANGED << agentResults, pi >>
           ELSE IF Caught(outcome)
           THEN /\ agentResults' = Append(agentResults,
                                          Result(c.agent, c.name, "error", CaughtError(outcome)))
                /\ inflight' = Awaited(inflight, c)
                /\ pi' = pi + 1
                /\ pc' = "providers"
           ELSE /\ inflight' = Awaited(inflight, c)
                /\ pc' = "rejected"
                /\ UNCHANGED << agentResults, pi >>
    /\ UNCHANGED << ui, flows, graph, teardown, project, remote, runNo, options, allCredentials, keyArn, kmsKeyArn,
                    results, ai, ret, history >>

\* Lines 168-174 after createApiKeyProvider answers: `created` on success,
\* `error` with the returned text on {success: false}, the caught error on a
\* throw.
CreateReturn(outcome) ==
    /\ pc = "create"
    /\ \E c \in inflight :
        /\ c.op = "createApiKeyProvider"
        /\ inflight' = Awaited(inflight, c)
        /\ calls' = Append(calls, Answered(c, outcome))
        /\ remoteProviders' = IF outcome = "ok" THEN remoteProviders \cup {c.name}
                              ELSE remoteProviders
        /\ everCreated' = IF outcome = "ok" THEN everCreated \cup {c.name}
                          ELSE everCreated
        /\ IF outcome \in {"ok", "fail"} \/ Caught(outcome)
           THEN /\ agentResults' = Append(agentResults,
                     CASE outcome = "ok" -> Result(c.agent, c.name, "created", NoError)
                       [] outcome = "fail" ->
                             Result(c.agent, c.name, "error", <<"CreateFailed">>)
                       [] OTHER -> Result(c.agent, c.name, "error", CaughtError(outcome)))
                /\ pi' = pi + 1
                /\ pc' = "providers"
           ELSE /\ pc' = "rejected"
                /\ UNCHANGED << agentResults, pi >>
    /\ UNCHANGED << ui, flows, graph, teardown, project, tokenVault, kmsKeys, runNo, options, allCredentials, keyArn,
                    kmsKeyArn, results, ai, ret, atStart, killed >>

\* The process is terminated while the loop over the agents and their
\* providers is under way.  Nothing is rolled back; a create call in flight
\* has reached the service (applied) or has not.
Terminate(applied) ==
    /\ pc \in {"agents", "providers", "exists", "create"}
    /\ applied => \E c \in inflight : c.op = "createApiKeyProvider"
    /\ LET made == IF applied
                   THEN { c.name : c \in { d \in inflight : d.op = "createApiKeyProvider" } }
                   ELSE {}
       IN  /\ remoteProviders' = remoteProviders \cup made
           /\ everCreated' = everCreated \cup made
           /\ killed' = [was |-> TRUE,
                         created |-> (remoteProviders \cup made) \ atStart.remoteProviders,
                         runtimeCredentials |-> options.runtimeCredentials]
    /\ pc' = "idle"
    /\ inflight' = {}
    /\ calls' = <<>>
    /\ results' = <<>>
    /\ agentResults' = <<>>
    /\ ai' = 1
    /\ pi' = 1
    /\ keyArn' = NoArn
    /\ kmsKeyArn' = NoArn
    /\ ret' = NoReturn
    /\ options' = NoOptions
    /\ allCredentials' = NoRuntime
    /\ UNCHANGED << ui, flows, graph, teardown, project, tokenVault, kmsKeys, runNo, atStart >>

Next ==
    \/ \E e \in BOOLEAN, rt \in RuntimeCredentials : Invoke(e, rt)
    \/ KmsStart
    \/ \E o \in {"ok", "noarn", "throw"} : KmsCreateKeyReturn(o)
    \/ \E o \in {"ok", "fail", "throw"} : KmsSetVaultReturn(o)
    \/ AgentsLoop
    \/ ProvidersLoop
    \/ \E o \in {"ok", "throw", "nocreds"} : ExistsReturn(o)
    \/ \E o \in {"ok", "fail", "throw", "nocreds"} : CreateReturn(o)
    \/ \E applied \in BOOLEAN : Terminate(applied)

Spec == Init /\ [][Next]_vars

\* ------------------------------ discoverDeployedTargets and destroyTarget

\* No identity provisioning is made while the teardown operations run.
IdentityQuiet ==
    /\ projectSpec = [agents |-> <<>>, identityKmsKeyArn |-> NoArn]
    /\ envFile = NoRuntime
    /\ remoteProviders = {}
    /\ tokenVault = Vault("NotFound", NoArn)
    /\ kmsKeys = 0
    /\ pc = "idle"
    /\ runNo = 0
    /\ options = NoOptions
    /\ allCredentials = NoRuntime
    /\ keyArn = NoArn
    /\ kmsKeyArn = NoArn
    /\ results = <<>>
    /\ agentResults = <<>>
    /\ ai = 1
    /\ pi = 1
    /\ inflight = {}
    /\ calls = <<>>
    /\ ret = NoReturn
    /\ atStart = [remoteProviders |-> {}, tokenVault |-> tokenVault, kmsKeys |-> 0]
    /\ everCreated = {}
    /\ killed = NotKilled

\* deployed-state.json holds, for some targets, the stack that was deployed.
DeployedStates ==
    { f \in [TargetNames -> {NoEntry} \cup { DiscoveredStack(n) : n \in TargetNames }] :
        \A n \in TargetNames : f[n] \in {NoEntry, DiscoveredStack(n)} }

InitDestroy ==
    /\ IdentityQuiet
    /\ GraphQuiet
    /\ FlowQuiet
    /\ UiQuiet
    /\ targets \in TargetLists
    /\ remoteStacks \in SUBSET { StackNameOf(n) : n \in TargetNames }
    /\ deployedState \in DeployedStates
    /\ dirs \in SUBSET CdkProjectDirs
    /\ operation = "none"
    /\ at = "idle"
    /\ opNo = 0
    /\ ti = 1
    /\ deployedTargets = <<>>
    /\ destroyOptions = NoDestroyOptions
    /\ log = <<>>
    /\ thrown = NoError
    /\ stateBefore = deployedState

Logged(op, arg, outcome) == [op |-> op, arg |-> arg, outcome |-> outcome]
Settled == at \in {"idle", "returned", "rejected"}

\* Lines 23-29 and 40: the project and the targets are read from the
\* configuration files; an unreadable file rejects the call.  With no target
\* the empty list is returned, otherwise the first lookup is sent.
DiscoverStart(readOutcome) ==
    /\ Settled
    /\ opNo < MaxOps
    /\ opNo' = opNo + 1
    /\ operation' = "discover"
    /\ log' = <<>>
    /\ stateBefore' = deployedState
    /\ deployedTargets' = <<>>
    /\ destroyOptions' = NoDestroyOptions
    /\ ti' = 1
    /\ IF readOutcome = "throw"
       THEN at' = "rejected" /\ thrown' = <<"ConfigError">>
       ELSE /\ thrown' = NoError
            /\ at' = IF targets = <<>> THEN "returned" ELSE "findStack"
    /\ UNCHANGED << ui, flows, graph, idVars, targets, remoteStacks, deployedState, dirs >>

\* Line 32: if (stack)
Found(stack) == stack # NoStack

\* Lines 35-37: the catch of a lookup is empty, the loop goes on.
AbortOnLookupThrow == "rejected"
AfterLookupThrow == "next"

\* Lines 29-40 after findStack answers: a found stack is pushed with its
\* target, a null answer and a throw push nothing; then the next target is
\* looked up, or the list is returned.
FindStackReturn(outcome) ==
    /\ at = "findStack"
    /\ LET target == targets[ti]
           stack == IF outcome = "answer" /\ StackNameOf(target) \in remoteStacks
                    THEN DiscoveredStack(target) ELSE NoStack
           step == IF outcome = "throw" THEN AfterLookupThrow ELSE "next"
       IN  /\ log' = Append(log, Logged("findStack", target,
                        IF outcome = "throw" THEN "throw"
                        ELSE IF Found(stack) THEN "found" ELSE "none"))
           /\ deployedTargets' = IF Found(stack)
                                 THEN Append(deployedTargets, DeployedTarget(target, stack))
                                 ELSE deployedTargets
           /\ IF step = "next"
              THEN /\ ti' = ti + 1
                   /\ at' = IF ti = Len(targets) THEN "returned" ELSE "findStack"
                   /\ thrown' = NoError
              ELSE /\ ti' = ti
                   /\ at' = "rejected"
                   /\ thrown' = <<"LookupError">>
    /\ UNCHANGED << ui, flows, graph, idVars, targets, remoteStacks, deployedState, dirs, operation, opNo,
                    destroyOptions, stateBefore >>

\* Line 54: existsSync(cdkProjectDir)
AnyDir(dir) == TRUE
ExistsSync(dir) == dir \in dirs

CdkProjectNotFound == <<"CDK project not found. Cannot destroy without CDK project.">>

\* Lines 51-63: without the CDK project directory the call throws; with it
\* the toolkit is made and initialize is sent.
DestroyStart(name, cdkProjectDir) ==
    /\ Settled
    /\ opNo < MaxOps
    /\ opNo' = opNo + 1
    /\ operation' = "destroy"
    /\ destroyOptions' = [target |-> DeployedTarget(name, DiscoveredStack(name)),
                          cdkProjectDir |-> cdkProjectDir]
    /\ log' = <<>>
    /\ stateBefore' = deployedState
    /\ IF ~ExistsSync(cdkProjectDir)
       THEN at' = "rejected" /\ thrown' = CdkProjectNotFound
       ELSE at' = "initialize" /\ thrown' = NoError
    /\ UNCHANGED << ui, flows, graph, idVars, targets, remoteStacks, deployedState, dirs, ti, deployedTargets >>

\* Lines 63-64 after toolkit.initialize answers: a throw rejects the call,
\* otherwise destroy is sent.
InitializeReturn(outcome) ==
    /\ at = "initialize"
    /\ log' = Append(log, Logged("initialize", destroyOptions.cdkProjectDir, outcome))
    /\ IF outcome = "ok"
       THEN at' = "destroy" /\ thrown' = NoError
       ELSE at' = "rejected" /\ thrown' = <<"ToolkitError">>
    /\ UNCHANGED << ui, flows, graph, idVars, targets, remoteStacks, deployedState, dirs, operation, opNo, ti,
                    deployedTargets, destroyOptions, stateBefore >>

\* Lines 64-69: the stacks toolkit.destroy is asked for.
EveryTargetStack == [strategy |-> "PATTERN_MUST_MATCH",
                     patterns |-> << StackNameOf("dev"), StackNameOf("prod") >>]
StackSelector == [strategy |-> "PATTERN_MUST_MATCH",
                  patterns |-> << destroyOptions.target.stack.stackName >>]
\* the stacks a selector selects: those a pattern names
Selected(selector) ==
    { s \in remoteStacks : \E k \in 1..Len(selector.patterns) : selector.patterns[k] = s }

\* Lines 64-72: the clean-up follows a destroy that did not throw.
CleanupAnyway(outcome) == "readDeployedState"
AfterDestroy(outcome) == IF outcome = "ok" THEN "readDeployedState" ELSE "rejected"

\* Lines 64-74 after toolkit.destroy answers: a throw rejects the call,
\* otherwise deployed-state.json is read.  A destroy that answers has removed
\* the selected stacks; one that throws has removed them or not.
DestroyReturn(outcome, removed) ==
    /\ at = "destroy"
    /\ outcome = "ok" => removed
    /\ log' = Append(log, Logged("destroy", StackSelector, outcome))
    /\ remoteStacks' = IF removed THEN remoteStacks \ Selected(StackSelector)
                       ELSE remoteStacks
    /\ at' = AfterDestroy(outcome)
    /\ thrown' = IF AfterDestroy(outcome) = "rejected" THEN <<"ToolkitError">> ELSE NoError
    /\ UNCHANGED << ui, flows, graph, idVars, targets, deployedState, dirs, operation, opNo, ti,
                    deployedTargets, destroyOptions, stateBefore >>

\* Line 75: deployedState.targets[target.target.name]
AnyEntry(state, name) == TRUE
HasEntry(state, name) == state[name] # NoEntry
\* Line 76: delete deployedState.targets[target.target.name]
NotDeleted(state, name) == state
Deleted(state, name) == [state EXCEPT ![name] = NoEntry]

\* Lines 79-81: the catch of the clean-up is empty, the call returns.
RethrowCleanupFailure == "rejected"
AfterCleanupFailure == "returned"

\* Lines 74-77 after readDeployedState answers: with an entry of the target
\* the state without it is written, without one the call returns.
ReadDeployedStateReturn(outcome) ==
    /\ at = "readDeployedState"
    /\ log' = Append(log, Logged("readDeployedState", "", outcome))
    /\ IF outcome = "ok"
       THEN /\ at' = IF HasEntry(deployedState, destroyOptions.target.target.name)
                     THEN "writeDeployedState" ELSE "returned"
            /\ thrown' = NoError
       ELSE /\ at' = AfterCleanupFailure
            /\ thrown' = IF AfterCleanupFailure = "rejected" THEN <<"StateError">> ELSE NoError
    /\ UNCHANGED << ui, flows, graph, idVars, targets, remoteStacks, deployedState, dirs, operation, opNo, ti,
                    deployedTargets, destroyOptions, stateBefore >>

\* Lines 77-82 after writeDeployedState answers: the file holds the state
\* without the entry, or, when the write threw, what it held.
WriteDeployedStateReturn(outcome) ==
    /\ at = "writeDeployedState"
    /\ log' = Append(log, Logged("writeDeployedState",
                                 Deleted(deployedState, destroyOptions.target.target.name),
                                 outcome))
    /\ IF outcome = "ok"
       THEN /\ deployedState' = Deleted(deployedState, destroyOptions.target.target.name)
            /\ at' = "returned"
            /\ thrown' = NoError
       ELSE /\ deployedState' = deployedState
            /\ at' = AfterCleanupFailure
            /\ thrown' = IF AfterCleanupFailure = "rejected" THEN <<"StateError">> ELSE NoError
    /\ UNCHANGED << ui, flows, graph, idVars, targets, remoteStacks, dirs, operation, opNo, ti,
                    deployedTargets, destroyOptions, stateBefore >>

NextDestroy ==
    \/ \E o \in {"ok", "throw"} : DiscoverStart(o)
    \/ \E o \in {"answer", "throw"} : FindStackReturn(o)
    \/ \E n \in TargetNames, d \in CdkProjectDirs : DestroyStart(n, d)
    \/ \E o \in {"ok", "throw"} : InitializeReturn(o)
    \/ \E o \in {"ok", "throw"}, removed \in BOOLEAN : DestroyReturn(o, removed)
    \/ \E o \in {"ok", "throw"} : ReadDeployedStateReturn(o)
    \/ \E o \in {"ok", "throw"} : WriteDeployedStateReturn(o)

SpecDestroy == InitDestroy /\ [][NextDestroy]_vars

\* ---------------------------------------------- the resource graph model

\* the collection of a kind and its entries
Collection(p, kind) == IF kind = "identity" THEN p.credentials ELSE p.memories
OAuthEntry(kind, name) == [name |-> name, type |-> "OAuthCredentialProvider"]
Entry(kind, name) == IF kind = "identity" THEN Credential(name) ELSE Memory(name)
NamesIn(p, kind) == { Collection(p, kind)[i].name : i \in 1..Len(Collection(p, kind)) }
WithCollection(p, kind, c) ==
    IF kind = "identity" THEN [p EXCEPT !.credentials = c] ELSE [p EXCEPT !.memories = c]

\* the agents of the project and the references they hold
AgentsIn(p) == { p.agents[i].name : i \in 1..Len(p.agents) }
RefsOf(agent, kind) ==
    IF kind = "identity" THEN agent.identityProviders ELSE agent.memoryProviders
WithRefs(agent, kind, refs) ==
    IF kind = "identity" THEN [agent EXCEPT !.identityProviders = refs]
    ELSE [agent EXCEPT !.memoryProviders = refs]
Holds(agent, kind, name, relation) ==
    \E i \in 1..Len(RefsOf(agent, kind)) :
        RefsOf(agent, kind)[i].name = name /\ RefsOf(agent, kind)[i].relation = relation
OwnersOf(p, kind, name) ==
    { p.agents[i].name : i \in { j \in 1..Len(p.agents) : Holds(p.agents[j], kind, name, "own") } }

\* listDependents(kind, name): the agents that hold a `use` reference, in
\* project order.
listDependents(p, kind, name) ==
    LET Uses(agent) == Holds(agent, kind, name, "use")
        users == SelectSeq(p.agents, Uses)
    IN  [k \in 1..Len(users) |-> users[k].name]

AddReference(p, agentName, kind, ref) ==
    [p EXCEPT !.agents =
        [i \in 1..Len(p.agents) |->
            IF p.agents[i].name = agentName
            THEN WithRefs(p.agents[i], kind, Append(RefsOf(p.agents[i], kind), ref))
            ELSE p.agents[i]]]

\* The project without the resources of some names: one rewrite that drops
\* the entries and every reference to them.
OnlyEntriesStripped(p, kind, names) ==
    LET KeepEntry(e) == e.name \notin names
    IN  WithCollection(p, kind, SelectSeq(Collection(p, kind), KeepEntry))
Stripped(p, kind, names) ==
    LET KeepEntry(e) == e.name \notin names
        KeepRef(r) == r.name \notin names
        agents == [i \in 1..Len(p.agents) |->
                      WithRefs(p.agents[i], kind, SelectSeq(RefsOf(p.agents[i], kind), KeepRef))]
    IN  WithCollection([p EXCEPT !.agents = agents], kind,
                       SelectSeq(Collection(p, kind), KeepEntry))

Ok == [success |-> TRUE, exitCode |-> 0, error |-> NoError]
Failed(error) == [success |-> FALSE, exitCode |-> 1, error |-> <<error>>]
Command(op, kind, name, agent, force, result) ==
    [op |-> op, kind |-> kind, name |-> name, agent |-> agent, force |-> force,
     result |-> result]

\* The projects the operations start from: agents, no resources yet.
InitGraph ==
    /\ IdentityQuiet
    /\ TeardownQuiet
    /\ agentcoreJson \in { [EmptyProject EXCEPT !.agents = as] :
                             as \in { <<>>, <<AgentEnv("A")>>,
                                      <<AgentEnv("A"), AgentEnv("B")>> } }
    /\ specBefore = agentcoreJson
    /\ command = NoCommand
    /\ changes = 0
    /\ FlowQuiet
    /\ UiQuiet

\* addOwnedResource: the checks an add makes before it changes the project.
AddWithoutDuplicateCheck(p, kind, name) == IF name = "" THEN "NameRequired" ELSE "ok"
AddCheck(p, kind, name) ==
    IF name = "" THEN "NameRequired"
    ELSE IF name \in NamesIn(p, kind) THEN "DuplicateNameError"
    ELSE "ok"

\* addOwnedResource(kind, spec), the `add identity` and `add memory` commands:
\* the resource becomes an entry of its collection and, with an owner, an
\* `own` reference of that agent.
AddResource(kind, name, owner) ==
    /\ changes < MaxChanges
    /\ owner \in AgentsIn(agentcoreJson) \cup {NoAgent}
    /\ changes' = changes + 1
    /\ specBefore' = agentcoreJson
    /\ LET check == AddCheck(agentcoreJson, kind, name)
           added == WithCollection(agentcoreJson, kind,
                                   Append(Collection(agentcoreJson, kind), Entry(kind, name)))
       IN  IF check = "ok"
           THEN /\ agentcoreJson' =
                      IF owner = NoAgent THEN added
                      ELSE AddReference(added, owner, kind, Reference(name, "own", "readwrite"))
                /\ command' = Command("add", kind, name, owner, FALSE, Ok)
           ELSE /\ agentcoreJson' = agentcoreJson
                /\ command' = Command("add", kind, name, owner, FALSE, Failed(check))
    /\ UNCHANGED << ui, idVars, teardown >>

\* bindResource: the checks a bind makes before it changes the project.
BindCheck(p, kind, targetAgent, name) ==
    IF name \notin NamesIn(p, kind) \/ targetAgent \notin AgentsIn(p) THEN "NotFoundError"
    ELSE IF targetAgent \in OwnersOf(p, kind, name) THEN "SelfBindError"
    ELSE "ok"

\* bindResource(kind, targetAgent, resourceName, opts): a `use` reference is
\* appended to the target agent.
BindResource(kind, targetAgent, name, access) ==
    /\ changes < MaxChanges
    /\ changes' = changes + 1
    /\ specBefore' = agentcoreJson
    /\ LET check == BindCheck(agentcoreJson, kind, targetAgent, name)
       IN  IF check = "ok"
           THEN /\ agentcoreJson' = AddReference(agentcoreJson, targetAgent, kind,
                                                 Reference(name, "use", access))
                /\ command' = Command("bind", kind, name, targetAgent, FALSE, Ok)
           ELSE /\ agentcoreJson' = agentcoreJson
                /\ command' = Command("bind", kind, name, targetAgent, FALSE, Failed(check))
    /\ UNCHANGED << ui, idVars, teardown >>

\* removeResource: the checks a remove makes before it changes the project.
RemoveWithoutDependentsCheck(p, kind, name, force) ==
    IF name \notin NamesIn(p, kind) THEN "NotFoundError" ELSE "ok"
RemoveWithoutLookup(p, kind, name, force) ==
    IF listDependents(p, kind, name) # <<>> /\ ~force THEN "HasDependentsError" ELSE "ok"
RemoveCheck(p, kind, name, force) ==
    IF name \notin NamesIn(p, kind) THEN "NotFoundError"
    ELSE IF listDependents(p, kind, name) # <<>> /\ ~force THEN "HasDependentsError"
    ELSE "ok"

\* removeResource(kind, name), the `remove identity` and `remove memory`
\* commands: the entry and every reference to it leave the project in one
\* rewrite.
RemoveResource(kind, name, force) ==
    /\ changes < MaxChanges
    /\ changes' = changes + 1
    /\ specBefore' = agentcoreJson
    /\ LET check == RemoveCheck(agentcoreJson, kind, name, force)
       IN  IF check = "ok"
           THEN /\ agentcoreJson' = Stripped(agentcoreJson, kind, {name})
                /\ command' = Command("remove", kind, name, NoAgent, force, Ok)
           ELSE /\ agentcoreJson' = agentcoreJson
                /\ command' = Command("remove", kind, name, NoAgent, force, Failed(check))
    /\ UNCHANGED << ui, idVars, teardown >>

\* the resources of a kind an agent owns, and whether another agent uses one
OwnedBy(p, kind, agentName) ==
    { n \in NamesIn(p, kind) : agentName \in OwnersOf(p, kind, n) }
OwnsShared(p, agentName) ==
    \E kind \in Kinds : \E n \in OwnedBy(p, kind, agentName) : listDependents(p, kind, n) # <<>>

\* The `remove agent` command: the agent leaves the project with the
\* resources it owns; owned resources that other agents use need force.
RemoveAgent(agentName, force) ==
    /\ changes < MaxChanges
    /\ changes' = changes + 1
    /\ specBefore' = agentcoreJson
    /\ LET check == IF agentName \notin AgentsIn(agentcoreJson) THEN "NotFoundError"
                    ELSE IF OwnsShared(agentcoreJson, agentName) /\ ~force
                    THEN "HasDependentsError"
                    ELSE "ok"
           NotIt(agent) == agent.name # agentName
           p1 == Stripped(agentcoreJson, "identity", OwnedBy(agentcoreJson, "identity", agentName))
           p2 == Stripped(p1, "memory", OwnedBy(agentcoreJson, "memory", agentName))
       IN  IF check = "ok"
           THEN /\ agentcoreJson' = [p2 EXCEPT !.agents = SelectSeq(p2.agents, NotIt)]
                /\ command' = Command("removeAgent", "agent", agentName, agentName, force, Ok)
           ELSE /\ agentcoreJson' = agentcoreJson
                /\ command' = Command("removeAgent", "agent", agentName, agentName, force,
                                      Failed(check))
    /\ UNCHANGED << ui, idVars, teardown >>

NextGraph ==
    \/ \E k \in Kinds, n \in ResourceNames, o \in AgentNames \cup {NoAgent} :
           AddResource(k, n, o) /\ UNCHANGED flows
    \/ \E k \in Kinds, a \in AgentNames, n \in ResourceNames, acc \in {"read", "readwrite"} :
           BindResource(k, a, n, acc) /\ UNCHANGED flows
    \/ \E k \in Kinds, n \in ResourceNames, f \in BOOLEAN : RemoveResource(k, n, f) /\ UNCHANGED flows
    \/ \E a \in AgentNames, f \in BOOLEAN : RemoveAgent(a, f) /\ UNCHANGED flows

SpecGraph == InitGraph /\ [][NextGraph]_vars

\* ------------------------------------ AddIdentityFlow and AddMemoryFlow

\* A project that also holds a resource with its owner.
WithOwned(p, kind, name, owner) ==
    AddReference(WithCollection(p, kind, Append(Collection(p, kind), Entry(kind, name))),
                 owner, kind, Reference(name, "own", "readwrite"))

\* The projects the flows are opened on.
TwoAgents == [EmptyProject EXCEPT !.agents = <<AgentEnv("A"), AgentEnv("B")>>]
OneAgent == [EmptyProject EXCEPT !.agents = <<AgentEnv("A")>>]
BothOwnM == WithOwned(WithOwned(TwoAgents, "identity", "M", "A"), "memory", "M", "B")
FlowProjects ==
    { EmptyProject, TwoAgents,
      WithOwned(OneAgent, "identity", "M", "A"),
      BothOwnM,
      WithOwned(WithOwned(BothOwnM, "identity", "m", "B"), "memory", "m", "A") }

InitFlow ==
    /\ IdentityQuiet
    /\ TeardownQuiet
    /\ agentcoreJson \in FlowProjects
    /\ specBefore = agentcoreJson
    /\ command = NoCommand
    /\ changes = 0
    /\ FlowQuiet
    /\ UiQuiet

\* useAgents: the names of the agents of the project.
allAgents == [i \in 1..Len(agentcoreJson.agents) |-> agentcoreJson.agents[i].name]

\* useOwnedIdentities / useOwnedMemories: the resources that have an owner,
\* each with its owner.
Owned(kind) ==
    LET HasOwner(e) == OwnersOf(agentcoreJson, kind, e.name) # {}
        es == SelectSeq(Collection(agentcoreJson, kind), HasOwner)
    IN  [i \in 1..Len(es) |->
            [name |-> es[i].name,
             ownerAgent |-> CHOOSE a \in OwnersOf(agentcoreJson, kind, es[i].name) : TRUE]]

\* AddIdentityFlow lines 78-87, AddMemoryFlow lines 270-279: the resources
\* offered for a target agent are those another agent owns.
AllOwned(owned, targetAgent) == owned
Offered(owned, targetAgent) ==
    LET NotOwnedByTarget(i) == i.ownerAgent # targetAgent
    IN  SelectSeq(owned, NotOwnedByTarget)

\* identityItems / memoryItems
ResourceItems ==
    IF flow.name # "bind-select-resource" THEN <<>>
    ELSE Offered(Owned(flowKind), flow.targetAgent)

\* The flow is mounted in mode-select.
OpenFlow(kind) ==
    /\ flowKind = "none"
    /\ flowKind' = kind
    /\ flow' = FlowState("mode-select", "", "", "")
    /\ UNCHANGED << ui, idVars, teardown, graph >>

\* modeNav.onSelect, active in mode-select.
SelectMode(item) ==
    /\ flowKind # "none"
    /\ flow.name = "mode-select"
    /\ flow' = FlowState(IF item = "create" THEN "create-wizard" ELSE "bind-select-agent",
                         "", "", "")
    /\ UNCHANGED << ui, idVars, teardown, graph, flowKind >>

\* agentNav.onSelect, active in bind-select-agent.
SelectAgent(item) ==
    /\ flowKind # "none"
    /\ flow.name = "bind-select-agent"
    /\ \E i \in 1..Len(allAgents) : allAgents[i] = item
    /\ flow' = FlowState("bind-select-resource", item, "", "")
    /\ UNCHANGED << ui, idVars, teardown, graph, flowKind >>

\* identityNav.onSelect / memoryNav.onSelect, active in bind-select-identity
\* / bind-select-memory: an identity goes on to the variable name, a memory
\* to the access.
SelectResource(item) ==
    /\ flowKind # "none"
    /\ flow.name = "bind-select-resource"
    /\ \E i \in 1..Len(ResourceItems) : ResourceItems[i].name = item
    /\ flow' = FlowState(IF flowKind = "identity" THEN "bind-enter-envvar"
                         ELSE "bind-select-access",
                         flow.targetAgent, item, "")
    /\ UNCHANGED << ui, idVars, teardown, graph, flowKind >>

\* accessNav.onSelect, active in bind-select-access (AddMemoryFlow).
SelectAccess(item) ==
    /\ flowKind = "memory"
    /\ flow.name = "bind-select-access"
    /\ flow' = FlowState("bind-enter-envvar", flow.targetAgent, flow.resourceName, item)
    /\ UNCHANGED << ui, idVars, teardown, graph, flowKind >>

\* handleBindComplete: the attach is issued for the target agent and the
\* resource of the flow; its answer leads to bind-success or to error.
SubmitEnvVar ==
    /\ flowKind # "none"
    /\ flow.name = "bind-enter-envvar"
    /\ BindResource(flowKind, flow.targetAgent, flow.resourceName,
                    IF flowKind = "memory" THEN flow.access ELSE "readwrite")
    /\ flow' = IF command'.result.success
               THEN FlowState("bind-success", flow.targetAgent, flow.resourceName, "")
               ELSE FlowState("error", "", "", "")
    /\ UNCHANGED flowKind

\* handleCreateComplete, from the create screen: shown in create-wizard and,
\* when there is nothing to bind, in mode-select.
CreateComplete(name, ownerAgent) ==
    /\ flowKind # "none"
    /\ \/ flow.name = "create-wizard"
       \/ flow.name = "mode-select" /\ Owned(flowKind) = <<>>
    /\ ownerAgent # NoAgent
    /\ AddResource(flowKind, name, ownerAgent)
    /\ flow' = IF command'.result.success
               THEN FlowState("create-success", "", name, "")
               ELSE FlowState("error", "", "", "")
    /\ UNCHANGED flowKind

\* The onExit, onCancel and onBack handlers: one step back, or out of the
\* flow from mode-select and from the success screens.
Back ==
    /\ flowKind # "none"
    /\ IF flow.name \in {"mode-select", "create-success", "bind-success"}
       THEN flowKind' = "none" /\ flow' = NoFlow
       ELSE /\ flowKind' = flowKind
            /\ flow' =
                 CASE flow.name \in {"create-wizard", "bind-select-agent", "error"} ->
                          FlowState("mode-select", "", "", "")
                   [] flow.name = "bind-select-resource" ->
                          FlowState("bind-select-agent", "", "", "")
                   [] flow.name = "bind-select-access" ->
                          FlowState("bind-select-resource", flow.targetAgent, "", "")
                   [] flow.name = "bind-enter-envvar" /\ flowKind = "memory" ->
                          FlowState("bind-select-access", flow.targetAgent,
                                    flow.resourceName, "")
                   [] OTHER ->
                          FlowState("bind-select-resource", flow.targetAgent, "", "")
    /\ UNCHANGED << ui, idVars, teardown, graph >>

\* The bind command, given while no flow is open.
BindCommand(kind, targetAgent, name, access) ==
    /\ flowKind = "none"
    /\ BindResource(kind, targetAgent, name, access)
    /\ UNCHANGED flows

NextFlow ==
    \/ \E k \in Kinds : OpenFlow(k)
    \/ \E item \in {"create", "bind"} : SelectMode(item)
    \/ \E item \in AgentNames : SelectAgent(item)
    \/ \E item \in ResourceNames : SelectResource(item)
    \/ \E item \in {"read", "readwrite"} : SelectAccess(item)
    \/ SubmitEnvVar
    \/ \E n \in ResourceNames, o \in AgentNames : CreateComplete(n, o)
    \/ Back
    \/ \E k \in Kinds, a \in AgentNames, n \in ResourceNames, acc \in {"read", "readwrite"} :
           BindCommand(k, a, n, acc)

SpecFlow == InitFlow /\ [][NextFlow]_vars

\* ------------------------------------------------------- useRemoveFlow

Step(label, status, error) == [label |-> label, status |-> status, error |-> error]

\* getRemoveSteps()
getRemoveSteps == << Step("Reset project schemas", "pending", NoError) >>

\* createDefaultProjectSpec(projectName)
KeepsResources(name) ==
    IF projectFile \in {NoProject, Corrupted} THEN ProjectSpecOf(name, <<>>, <<>>, <<>>)
    ELSE [projectFile EXCEPT !.name = name]
createDefaultProjectSpec(name) == ProjectSpecOf(name, <<>>, <<>>, <<>>)

\* updateStep(0, update): the first step with its status and error replaced.
updateStep(ss, status, error) ==
    [i \in 1..Len(ss) |-> IF i = 1 THEN Step(ss[i].label, status, error) ELSE ss[i]]

\* hasStepError(steps)
hasError == \E i \in 1..Len(steps) : steps[i].status = "error"

\* A remove flow is mounted in `checking`, with its options, on a project
\* with its deployment targets, their stacks and DeployedState.
InitRemove ==
    /\ IdentityQuiet
    /\ GraphQuiet
    /\ FlowQuiet
    /\ targets \in { <<>>, <<"dev", "prod">> }
    /\ remoteStacks \in { {}, {StackNameOf("prod")} }
    /\ deployedState \in { f \in DeployedStates : f["dev"] = NoEntry }
    /\ dirs = {}
    /\ operation = "none"
    /\ at = "idle"
    /\ opNo = 0
    /\ ti = 1
    /\ deployedTargets = <<>>
    /\ destroyOptions = NoDestroyOptions
    /\ log = <<>>
    /\ thrown = NoError
    /\ stateBefore = deployedState
    /\ removeOptions \in RemoveFlowOptions
    /\ projectFile \in ProjectFiles
    /\ phase = "checking"
    /\ steps = <<>>
    /\ itemsToRemove = <<>>
    /\ hasDeployedResources = FALSE
    /\ projectName = ""
    /\ cp = "mount"
    /\ currentProjectName = ""
    /\ rti = 1
    /\ effectDeps = << "unmounted", "" >>
    /\ runs = 0
    /\ inFlightWrites = {}
    /\ writeLog = <<>>
    /\ confirmCalls = 0
    /\ DevQuiet
    /\ SecretQuiet

\* The variables no step of the remove flow changes.
RemoveFrame ==
    UNCHANGED << idVars, teardown, graph, flows, devVars, secretVars, removeOptions >>

\* Lines 103-110: dryRun before force, force before the confirmation.
ForceFirst(dryRun, force) ==
    IF force THEN "removing" ELSE IF dryRun THEN "dry-run" ELSE "confirm"
PhaseAfterCheck(dryRun, force) ==
    IF dryRun THEN "dry-run" ELSE IF force THEN "removing" ELSE "confirm"

\* Lines 103-110, the end of checkProject: the phase is set, and for
\* `removing` the steps.
EndOfCheck ==
    /\ phase' = PhaseAfterCheck(removeOptions.dryRun, removeOptions.force)
    /\ steps' = IF PhaseAfterCheck(removeOptions.dryRun, removeOptions.force) = "removing"
                THEN getRemoveSteps ELSE steps
    /\ cp' = "ended"

\* Lines 66-77: the items of a project that was read.
Plural(n) == IF n > 1 THEN "s" ELSE ""
Item(count, text) == [count |-> count, text |-> text]
ItemsOf(spec) ==
    << Item(0, <<"AgentCore project: ", spec.name>>) >>
    \o (IF Len(spec.agents) > 0
        THEN << Item(Len(spec.agents), <<" agent definition", Plural(Len(spec.agents))>>) >>
        ELSE <<>>)
    \o (IF Len(spec.memories) > 0
        THEN << Item(Len(spec.memories), <<" memory provider", Plural(Len(spec.memories))>>) >>
        ELSE <<>>)
    \o (IF Len(spec.credentials) > 0
        THEN << Item(Len(spec.credentials), <<" credential", Plural(Len(spec.credentials))>>) >>
        ELSE <<>>)

\* Line 54: configIO.configExists('project')
configExists(file) == file # NoProject

\* Lines 50-57 and 113, the effect of the mount: outside `checking` it
\* returns; without a project the flow ends in not-found; with one the
\* project is read.
CheckProjectStart ==
    /\ cp = "mount"
    /\ IF phase # "checking" THEN cp' = "ended" /\ phase' = phase
       ELSE IF ~configExists(projectFile) THEN cp' = "ended" /\ phase' = "not-found"
       ELSE cp' = "readProjectSpec" /\ phase' = phase
    /\ UNCHANGED << projectFile, steps, itemsToRemove, hasDeployedResources, projectName,
                    currentProjectName, rti, effectDeps, runs, inFlightWrites, writeLog,
                    confirmCalls >>
    /\ RemoveFrame

\* Lines 63-110 after readProjectSpec answers: the items are set from the
\* project, or from the failure; with a project name the targets are read,
\* without one checkProject ends.
ReadProjectSpecReturn(outcome) ==
    /\ cp = "readProjectSpec"
    /\ outcome = "ok" => projectFile \notin {NoProject, Corrupted}
    /\ projectFile = Corrupted => outcome = "throw"
    /\ LET name == IF outcome = "ok" THEN projectFile.name ELSE ""
           items == IF outcome = "ok" THEN ItemsOf(projectFile)
                    ELSE << Item(0, <<"AgentCore project (corrupted or incomplete)">>) >>
       IN  /\ currentProjectName' = name
           /\ projectName' = IF outcome = "ok" THEN name ELSE projectName
           /\ itemsToRemove' = Append(items, Item(0, <<"All schemas will be reset to empty state">>))
           /\ IF name # ""
              THEN cp' = "readTargets" /\ phase' = phase /\ steps' = steps
              ELSE EndOfCheck
    /\ UNCHANGED << projectFile, hasDeployedResources, rti, effectDeps, runs,
                    inFlightWrites, writeLog, confirmCalls >>
    /\ RemoveFrame

\* Lines 90-110 after readAWSDeploymentTargets answers: with a target the
\* first lookup is sent; with none, or after a throw, checkProject ends.
ReadTargetsReturn(outcome) ==
    /\ cp = "readTargets"
    /\ IF outcome = "ok" /\ targets # <<>>
       THEN cp' = "findStack" /\ rti' = 1 /\ phase' = phase /\ steps' = steps
       ELSE EndOfCheck /\ rti' = rti
    /\ UNCHANGED << projectFile, itemsToRemove, hasDeployedResources, projectName,
                    currentProjectName, effectDeps, runs, inFlightWrites, writeLog,
                    confirmCalls >>
    /\ RemoveFrame

\* Lines 91-110 after findStack answers: a found stack sets
\* hasDeployedResources and leaves the loop, a throw leaves the loop, no
\* stack goes on to the next target; after the loop checkProject ends.
CheckFindStackReturn(outcome) ==
    /\ cp = "findStack"
    /\ LET found == outcome = "answer" /\ StackNameOf(targets[rti]) \in remoteStacks
       IN  /\ hasDeployedResources' = (hasDeployedResources \/ found)
           /\ IF outcome = "answer" /\ ~found /\ rti < Len(targets)
              THEN rti' = rti + 1 /\ cp' = cp /\ phase' = phase /\ steps' = steps
              ELSE EndOfCheck /\ rti' = rti
    /\ UNCHANGED << projectFile, itemsToRemove, projectName, currentProjectName,
                    effectDeps, runs, inFlightWrites, writeLog, confirmCalls >>
    /\ RemoveFrame

\* confirmRemoval, lines 116-119.
confirmRemoval ==
    /\ phase # "unmounted"
    /\ confirmCalls < MaxConfirms
    /\ confirmCalls' = confirmCalls + 1
    /\ steps' = getRemoveSteps
    /\ phase' = "removing"
    /\ UNCHANGED << projectFile, itemsToRemove, hasDeployedResources, projectName, cp,
                    currentProjectName, rti, effectDeps, runs, inFlightWrites, writeLog >>
    /\ RemoveFrame

\* Line 126: if (phase !== 'removing') return
InAnyPhase(p) == TRUE
IsRemoving(p) == p = "removing"

\* Lines 125-143 and 171, the effect on [phase, projectName]: it runs after a
\* render in which one of the two has changed.  Outside `removing` it
\* returns; in `removing` it calls runRemoval, whose isRunning is false: the
\* step is marked running and writeProjectSpec is sent with the default
\* specification under the project name of that render.
RemovalEffect ==
    /\ effectDeps # << phase, projectName >>
    /\ effectDeps' = << phase, projectName >>
    /\ IF IsRemoving(phase)
       THEN /\ runs' = runs + 1
            /\ steps' = updateStep(steps, "running", NoError)
            /\ inFlightWrites' = inFlightWrites \cup
                   { [run |-> runs + 1,
                      spec |-> createDefaultProjectSpec(
                                  IF projectName = "" THEN "Project" ELSE projectName)] }
       ELSE UNCHANGED << runs, steps, inFlightWrites >>
    /\ UNCHANGED << projectFile, phase, itemsToRemove, hasDeployedResources, projectName,
                    cp, currentProjectName, rti, writeLog, confirmCalls >>
    /\ RemoveFrame

\* Lines 146-153: setPhase('complete') after the write and in its catch.
StaysOnFailure(outcome) == IF outcome = "ok" THEN "complete" ELSE "removing"
PhaseAfterWrite(outcome) == "complete"

\* Lines 136-152 after writeProjectSpec answers: the file holds the default
\* specification and the step is a success, or the write threw and the step
\* is an error; either way the phase is complete.
WriteProjectSpecReturn(outcome) ==
    /\ \E w \in inFlightWrites :
        /\ inFlightWrites' = inFlightWrites \ {w}
        /\ writeLog' = Append(writeLog, [run |-> w.run, spec |-> w.spec, outcome |-> outcome])
        /\ projectFile' = IF outcome = "ok" THEN w.spec ELSE projectFile
        /\ steps' = IF outcome = "ok" THEN updateStep(steps, "success", NoError)
                    ELSE updateStep(steps, "error", <<"WriteError">>)
    /\ phase' = PhaseAfterWrite(outcome)
    /\ UNCHANGED << itemsToRemove, hasDeployedResources, projectName, cp,
                    currentProjectName, rti, effectDeps, runs, confirmCalls >>
    /\ RemoveFrame

\* The flow with its confirmation prompt: confirmRemoval is called while the
\* flow waits in confirm.
ConfirmPrompt == phase = "confirm" /\ confirmRemoval

CheckSteps ==
    \/ CheckProjectStart
    \/ \E o \in {"ok", "throw"} : ReadProjectSpecReturn(o)
    \/ \E o \in {"ok", "throw"} : ReadTargetsReturn(o)
    \/ \E o \in {"answer", "throw"} : CheckFindStackReturn(o)

NextRemove ==
    \/ CheckSteps
    \/ ConfirmPrompt
    \/ RemovalEffect
    \/ \E o \in {"ok", "throw"} : WriteProjectSpecReturn(o)

SpecRemove == InitRemove /\ [][NextRemove]_vars

\* The awaited calls of checkProject and of runRemoval are answered and the
\* effect runs after the render that changed its dependencies; the
\* confirmation may never come.
RemoveFairness ==
    /\ WF_vars(CheckSteps)
    /\ WF_vars(RemovalEffect)
    /\ WF_vars(\E o \in {"ok", "throw"} : WriteProjectSpecReturn(o))

SpecRemoveLive == SpecRemove /\ RemoveFairness

\* The hook alone: confirmRemoval is called at any time.
NextRemoveAnyCall ==
    \/ CheckSteps
    \/ confirmRemoval
    \/ RemovalEffect
    \/ \E o \in {"ok", "throw"} : WriteProjectSpecReturn(o)

SpecRemoveAnyCall == InitRemove /\ [][NextRemoveAnyCall]_vars

\* ---------------------------------------------------------- getDevConfig

Supported == [supported |-> TRUE, reason |-> NoError]
Unsupported(reason) == [supported |-> FALSE, reason |-> reason]

\* Line 29: agent.targetLanguage !== 'Python'
AnyLanguage(agent) == FALSE
NotPython(agent) == agent.targetLanguage # "Python"

\* isDevSupported(agent), lines 26-51
isDevSupported(agent) ==
    IF NotPython(agent)
    THEN Unsupported(<<"Dev mode only supports Python agents. Agent ", agent.name,
                       " targets ", agent.targetLanguage>>)
    ELSE IF agent.runtime.artifact = "ContainerImage"
    THEN Unsupported(<<"ContainerImage agent ", agent.name, " does not support dev mode.">>)
    ELSE IF agent.runtime.artifact = "CodeZip" /\ agent.runtime.entrypoint = ""
    THEN Unsupported(<<"CodeZip agent ", agent.name, " is missing entrypoint.">>)
    ELSE Supported

\* getDevSupportedAgents(project), lines 69-72
getDevSupportedAgents(p) ==
    LET IsSupported(agent) == isDevSupported(agent).supported
    IN  IF ~p.loaded THEN <<>> ELSE SelectSeq(p.agents, IsSupported)

\* resolveCodeDirectory(codeLocation, configRoot), lines 57-66: the trailing
\* slash is dropped; an absolute path is returned, a relative one is joined
\* to the project root, the directory of configRoot.
resolveCodeDirectory(codeLocation, configRoot) ==
    LET cleanPath == IF codeLocation[Len(codeLocation)] = ""
                     THEN SubSeq(codeLocation, 1, Len(codeLocation) - 1)
                     ELSE codeLocation
        projectRoot == SubSeq(configRoot, 1, Len(configRoot) - 1)
    IN  IF cleanPath[1] = "/" THEN cleanPath ELSE projectRoot \o cleanPath

\* The default configuration of lines 101-107 and 126-132.
DefaultConfig(name, workingDir) ==
    DevConfig(name, "src.main:app", workingDir, FALSE, TRUE)

Returned(config) == [ended |-> "returned", config |-> config, error |-> NoError]
Thrown(error) == [ended |-> "thrown", config |-> NoDevConfig, error |-> error]

\* project.agents.find(a => a.name === agentName): the first agent of that
\* name, or <<>> when there is none.
First(s) == IF s = <<>> THEN <<>> ELSE << s[1] >>
FindAgent(agents, name) ==
    LET Named(a) == a.name = name
    IN  First(SelectSeq(agents, Named))

\* getDevConfig(workingDir, project, configRoot, agentName), lines 91-153.
\* A found or picked agent is a one-element sequence, `undefined` is <<>>.
getDevConfig(workingDir, p, configRoot, name) ==
    LET dirName == workingDir[Len(workingDir)]
        given == name # NoName /\ name # ""
        targetAgent == IF given THEN FindAgent(p.agents, name)
                       ELSE First(getDevSupportedAgents(p))
    IN  IF ~p.loaded
        THEN Returned(DefaultConfig(IF name # NoName THEN <<name>>
                                    ELSE <<dirName, "_Agent">>,
                                    workingDir))
        ELSE IF given /\ targetAgent = <<>>
        THEN Thrown(<<"Agent ", name, " not found in project.">>)
        ELSE IF targetAgent = <<>>
        THEN Returned(DefaultConfig(<<dirName, "_Agent">>, workingDir))
        ELSE IF ~isDevSupported(targetAgent[1]).supported
        THEN Thrown(isDevSupported(targetAgent[1]).reason)
        ELSE Returned(DevConfig(
                 << targetAgent[1].name >>,
                 targetAgent[1].runtime.entrypoint,
                 IF configRoot # NoRoot /\ targetAgent[1].runtime.artifact = "CodeZip"
                       /\ targetAgent[1].runtime.codeLocation # <<>>
                 THEN resolveCodeDirectory(targetAgent[1].runtime.codeLocation, configRoot)
                 ELSE workingDir,
                 TRUE,
                 targetAgent[1].targetLanguage = "Python"))

\* The call is about to be made, with its arguments.
InitDev ==
    /\ IdentityQuiet
    /\ TeardownQuiet
    /\ GraphQuiet
    /\ FlowQuiet
    /\ RemoveQuiet
    /\ SecretQuiet
    /\ devArgs \in [workingDir : {WorkingDir}, project : DevProjects,
                    configRoot : ConfigRoots, agentName : DevAgentNames]
    /\ devCall = [ended |-> "none", config |-> NoDevConfig, error |-> NoError]

\* The call of getDevConfig.
GetDevConfig ==
    /\ devCall.ended = "none"
    /\ devCall' = getDevConfig(devArgs.workingDir, devArgs.project, devArgs.configRoot,
                               devArgs.agentName)
    /\ UNCHANGED << idVars, teardown, graph, flows, removeVars, secretVars, devArgs >>

NextDev == GetDevConfig

SpecDev == InitDev /\ [][NextDev]_vars

\* ------------------------------------------------------------ SecretInput
\* The component without schema, customValidation, placeholder and
\* description: the rendered lines of the input box.

\* maskChar.repeat(n)
Repeat(char, n) == [i \in 1..n |-> char]

\* Lines 126-152: the text to display, masked or plain.
getDisplayValue(props, v, c, show) ==
    IF show THEN v
    ELSE IF Len(v) = 0 THEN <<>>
    ELSE IF c # Len(v) THEN v                       \* !cursorAtEnd
    ELSE IF props.revealChars > 0 /\ Len(v) > props.revealChars * 2
    THEN SubSeq(v, 1, props.revealChars)
             \o Repeat(props.maskChar, Len(v) - props.revealChars * 2)
             \o SubSeq(v, Len(v) - props.revealChars + 1, Len(v))
    ELSE Repeat(props.maskChar, Len(v))

\* displayValue.slice(i, i + LINE_WIDTH)
Slice(s, from, to) ==
    IF from >= Len(s) THEN <<>>
    ELSE SubSeq(s, from + 1, IF to < Len(s) THEN to ELSE Len(s))

\* Lines 155-170: the display value in lines of LINE_WIDTH characters, and
\* the line and column of the cursor (both counted from 0).
getLines(props, v, c, show) ==
    LET displayValue == getDisplayValue(props, v, c, show)
        count == (Len(displayValue) + LINE_WIDTH - 1) \div LINE_WIDTH
    IN  IF Len(displayValue) = 0
        THEN [lines |-> <<>>, cursorLine |-> 0, cursorCol |-> 0]
        ELSE [lines |-> [k \in 1..count |->
                            Slice(displayValue, (k - 1) * LINE_WIDTH, k * LINE_WIDTH)],
              cursorLine |-> c \div LINE_WIDTH,
              cursorCol |-> c % LINE_WIDTH]

\* A rendered line: the text before the cursor, the character under the
\* Cursor component (none on a line without it) and the text after it.
Rendered(before, charAtCursor, after) ==
    [before |-> before, cursor |-> charAtCursor, after |-> after]

\* Lines 180-207.
renderLine(line, lineIndex, cursorLine, cursorCol) ==
    IF lineIndex = cursorLine
    THEN Rendered(Slice(line, 0, cursorCol),
                  IF cursorCol < Len(line) THEN << line[cursorCol + 1] >> ELSE << " " >>,
                  Slice(line, cursorCol + 1, Len(line)))
    ELSE Rendered(line, <<>>, <<>>)

\* Lines 217-231: the lines of the input box; an empty value shows the prompt
\* with the cursor alone.
render(props, v, c, show) ==
    LET g == getLines(props, v, c, show)
    IN  IF v # <<>>
        THEN [i \in 1..Len(g.lines) |->
                 renderLine(g.lines[i], i - 1, g.cursorLine, g.cursorCol)]
        ELSE << Rendered(<<>>, << " " >>, <<>>) >>

\* The secrets: every string of up to MaxShort characters, and the longer
\* ones, up to MaxLong characters, that repeat one character.
SecretChars == {"a", "b"}
RECURSIVE Strings(_)
Strings(n) ==
    IF n = 0 THEN { <<>> }
    ELSE { Append(s, ch) : s \in Strings(n - 1), ch \in SecretChars }
SecretValues ==
    UNION { Strings(n) : n \in 0..MaxShort }
    \cup { Repeat(ch, n) : ch \in SecretChars, n \in (MaxShort + 1)..MaxLong }

\* The component before its first render, with the value and the cursor that
\* useTextInput holds.
InitSecret ==
    /\ IdentityQuiet
    /\ TeardownQuiet
    /\ GraphQuiet
    /\ FlowQuiet
    /\ RemoveQuiet
    /\ DevQuiet
    /\ secretProps \in { SecretProps("*", r) : r \in {0, 1} }
    /\ value \in SecretValues
    /\ twin \in { s \in SecretValues : Len(s) = Len(value) }
    /\ cursor \in 0..Len(value)
    /\ showValue = FALSE
    /\ screen = <<>>
    /\ twinScreen = <<>>

\* Lines 209-246: the component renders, for the secret and for its twin.
Render ==
    /\ screen = <<>>
    /\ screen' = render(secretProps, value, cursor, showValue)
    /\ twinScreen' = render(secretProps, twin, cursor, showValue)
    /\ UNCHANGED << idVars, teardown, graph, flows, removeVars, devVars,
                    secretProps, value, cursor, twin, showValue >>

\* Lines 112-119: Tab toggles showValue, and the component renders again.
PressTab ==
    /\ screen # <<>>
    /\ showValue' = ~showValue
    /\ screen' = render(secretProps, value, cursor, showValue')
    /\ twinScreen' = render(secretProps, twin, cursor, showValue')
    /\ UNCHANGED << idVars, teardown, graph, flows, removeVars, devVars,
                    secretProps, value, cursor, twin >>

NextSecret == Render \/ PressTab

SpecSecret == InitSecret /\ [][NextSecret]_vars

\* ------------------------------------------------------------- properties

Done == pc = "done"

\* positions in `calls` of the calls of one operation
CallsOf(op) == { i \in 1..Len(calls) : calls[i].op = op }
KmsOps == {"CreateKey", "SetTokenVaultKmsKey"}
ProviderOps == {"apiKeyProviderExists", "createApiKeyProvider"}

\* a KMS call of this run failed / every call of this run succeeded
KmsFailed == \E i \in 1..Len(calls) : calls[i].op \in KmsOps /\ calls[i].outcome # "ok"
AllCallsOk == \A i \in 1..Len(calls) : calls[i].outcome = "ok"

\* calls of this run, answered or in flight, for one provider of one agent
CallsFor(op, agent, name) ==
    { i \in 1..Len(calls) :
        calls[i].op = op /\ calls[i].agent = agent /\ calls[i].name = name }
InFlightFor(agent, name) ==
    { c \in inflight : c.op \in ProviderOps /\ c.agent = agent /\ c.name = name }

\* The (agent, owned API-key provider) pairs of the project, agents in order
\* and each agent's providers in order.
PairsOfAgent(agent) ==
    LET Wanted(p) == p.relation = "own" /\ p.variant = "ApiKeyCredentialProvider"
        ps == SelectSeq(agent.identityProviders, Wanted)
    IN  [k \in 1..Len(ps) |->
            [agentName |-> agent.name, providerName |-> ps[k].name,
             envVarName |-> ps[k].envVarName]]

RECURSIVE PairsFrom(_)
PairsFrom(agents) ==
    IF agents = <<>> THEN <<>>
    ELSE PairsOfAgent(Head(agents)) \o PairsFrom(Tail(agents))

Pairs == PairsFrom(projectSpec.agents)

\* the entry of the returned results for the k-th pair is there, and is its
EntryFor(k) ==
    /\ k <= Len(ret.results)
    /\ ret.results[k].agentName = Pairs[k].agentName
    /\ ret.results[k].providerName = Pairs[k].providerName

SecretMissing(k) == Falsy(allCredentials[Pairs[k].envVarName])

\* C1 (as amended): in a second or later invocation, a provider that has a
\* remote record when the invocation starts gets no create call; and when its
\* secret is present, the KMS step passes and its existence check does not
\* fail, its reported status is `exists`.
C1_SecondRunReportsExists ==
    (Done /\ runNo >= 2) =>
        \A k \in 1..Len(Pairs) :
            Pairs[k].providerName \in atStart.remoteProviders =>
                /\ CallsFor("createApiKeyProvider", Pairs[k].agentName,
                            Pairs[k].providerName) = {}
                /\ ( /\ ~SecretMissing(k)
                     /\ ~KmsFailed
                     /\ \A i \in CallsFor("apiKeyProviderExists", Pairs[k].agentName,
                                          Pairs[k].providerName) : calls[i].outcome = "ok" )
                   => (EntryFor(k) /\ ret.results[k].status = "exists")

\* C1 witness: the second invocation reports `exists` for a provider the first
\* invocation created.
C1_Witness ==
    /\ Done /\ runNo = 2
    /\ \E k \in 1..Len(Pairs) :
        /\ Pairs[k].providerName \in everCreated
        /\ Pairs[k].providerName \in atStart.remoteProviders
        /\ EntryFor(k)
        /\ ret.results[k].status = "exists"

\* C1 (as stated; read with every remote call of the invocation succeeding):
\* in a second invocation every owned API-key provider with a remote record
\* gets no create call and is reported `exists`.
C1_Original ==
    (Done /\ runNo >= 2 /\ AllCallsOk) =>
        \A k \in 1..Len(Pairs) :
            Pairs[k].providerName \in atStart.remoteProviders =>
                /\ CallsFor("createApiKeyProvider", Pairs[k].agentName,
                            Pairs[k].providerName) = {}
                /\ EntryFor(k)
                /\ ret.results[k].status = "exists"

\* C2 (as stated, in the case of the repository's test: no ARN recorded in
\* the project, every remote call succeeding): with encryption requested and
\* a vault that reports a customer-managed key with an ARN, no key is
\* created, the vault is not written, the returned kmsKeyArn is the vault's
\* ARN and hasErrors is false.
C2_ReusesVaultKey ==
    ( /\ Done
      /\ options.enableKmsEncryption
      /\ projectSpec.identityKmsKeyArn = NoArn
      /\ AllCallsOk
      /\ atStart.tokenVault.keyType = "CustomerManagedKey"
      /\ atStart.tokenVault.kmsKeyArn # NoArn )
    => /\ CallsOf("CreateKey") = {}
       /\ CallsOf("SetTokenVaultKmsKey") = {}
       /\ ret.kmsKeyArn = atStart.tokenVault.kmsKeyArn
       /\ ~ret.hasErrors

\* the KMS step of a run that created a key: CreateKey first, exactly once
\* and answered with the next ARN; then, if it was answered with an ARN, one
\* setTokenVaultKmsKey with that ARN; and if both succeeded, the run returns
\* that ARN and the vault holds it.
CreatesAndSetsOneKey ==
    LET arn == NewArn(atStart.kmsKeys + 1) IN
    /\ Cardinality(CallsOf("CreateKey")) = 1
    /\ calls[1].op = "CreateKey"
    /\ calls[1].outcome = "ok" =>
          /\ kmsKeys = atStart.kmsKeys + 1
          /\ Cardinality(CallsOf("SetTokenVaultKmsKey")) = 1
          /\ calls[2].op = "SetTokenVaultKmsKey"
          /\ calls[2].arn = arn
          /\ calls[2].outcome = "ok" =>
                /\ ret.kmsKeyArn = arn
                /\ tokenVault = Vault("CustomerManagedKey", arn)
    /\ calls[1].outcome # "ok" =>
          /\ kmsKeys = atStart.kmsKeys
          /\ CallsOf("SetTokenVaultKmsKey") = {}

VaultWithoutKey ==
    \/ atStart.tokenVault.keyType = "ServiceManagedKey"
    \/ /\ atStart.tokenVault.keyType = "CustomerManagedKey"
       /\ atStart.tokenVault.kmsKeyArn = NoArn

C5_AtMostOneKey ==
    ( /\ Done
      /\ runNo >= 2
      /\ options.enableKmsEncryption
      /\ AllCallsOk
      /\ atStart.tokenVault = Vault("CustomerManagedKey", NewArn(atStart.kmsKeys))
      /\ atStart.kmsKeys = 1 )
    => /\ kmsKeys <= 1
       /\ ret.kmsKeyArn = atStart.tokenVault.kmsKeyArn

\* C6: when CreateKey or setTokenVaultKmsKey fails, the invocation is over at
\* once: no existence check and no create call is made or in flight for any
\* provider, and the result is one `error` entry for the token vault,
\* hasErrors true, no kmsKeyArn.
C6_KmsFailureAborts ==
    KmsFailed =>
        /\ Done
        /\ inflight = {}
        /\ \A i \in 1..Len(calls) : calls[i].op \notin ProviderOps
        /\ Len(ret.results) = 1
        /\ ret.results[1].status = "error"
        /\ ret.results[1].providerName = "TokenVault"
        /\ ret.results[1].agentName = ""
        /\ Head(ret.results[1].error) = "Failed to configure KMS: "
        /\ ret.hasErrors
        /\ ret.kmsKeyArn = NoArn

\* C6 witness: the key was created, configuring the vault failed, and the
\* project has a provider whose secret is present.
C6_Witness ==
    /\ Done
    /\ Len(calls) = 2
    /\ calls[1].op = "CreateKey" /\ calls[1].outcome = "ok"
    /\ calls[2].op = "SetTokenVaultKmsKey" /\ calls[2].outcome = "fail"
    /\ \E k \in 1..Len(Pairs) : ~SecretMissing(k)

\* C7: in a run without enableKmsEncryption on a project that records no key
\* ARN, no KMS or token-vault call is made or in flight, the vault and the
\* keys stay as they were, and kmsKeyArn is undefined.
C7_NoKmsWhenNotRequested ==
    ( /\ pc # "idle"
      /\ ~options.enableKmsEncryption
      /\ projectSpec.identityKmsKeyArn = NoArn )
    => /\ \A i \in 1..Len(calls) : calls[i].op \notin KmsOps
       /\ \A c \in inflight : c.op \notin KmsOps
       /\ tokenVault = atStart.tokenVault
       /\ kmsKeys = atStart.kmsKeys
       /\ kmsKeyArn = NoArn
       /\ ret.kmsKeyArn = NoArn

\* C7 witness: such a run returned after creating a provider.
C7_Witness ==
    /\ Done
    /\ ~options.enableKmsEncryption
    /\ projectSpec.identityKmsKeyArn = NoArn
    /\ \E i \in 1..Len(ret.results) : ret.results[i].status = "created"

\* C8: a provider whose secret is missing never has a remote call made or in
\* flight; once the KMS step has passed its result is `skipped` with the
\* message naming its variable, the other providers have their entries, and
\* hasErrors is true only if some entry is `error`.
C8_MissingSecretSkipped ==
    \A k \in 1..Len(Pairs) :
        (pc # "idle" /\ SecretMissing(k)) =>
            /\ \A op \in ProviderOps :
                  CallsFor(op, Pairs[k].agentName, Pairs[k].providerName) = {}
            /\ InFlightFor(Pairs[k].agentName, Pairs[k].providerName) = {}
            /\ (Done /\ ~KmsFailed) =>
                  /\ EntryFor(k)
                  /\ ret.results[k].status = "skipped"
                  /\ ret.results[k].error =
                        <<"No ", Pairs[k].envVarName, " found in agentcore/.env.local">>
                  /\ Len(ret.results) = Len(Pairs)
                  /\ ret.hasErrors =>
                        \E j \in 1..Len(ret.results) : ret.results[j].status = "error"

\* C8 witness: the first provider was skipped, a later one was created, and
\* hasErrors is false.
C8_Witness ==
    /\ Done
    /\ Len(ret.results) >= 2
    /\ ret.results[1].status = "skipped"
    /\ \E j \in 2..Len(ret.results) : ret.results[j].status = "created"
    /\ ~ret.hasErrors

\* C9: in every returned result hasErrors is true exactly when some entry of
\* results has status `error`.
C9_HasErrorsIffError ==
    Done =>
        (ret.hasErrors <=> \E i \in 1..Len(ret.results) : ret.results[i].status = "error")

\* C9 witness: a result with a skipped and an exists or created entry and no
\* error.
C9_Witness ==
    /\ Done
    /\ ~ret.hasErrors
    /\ \E i \in 1..Len(ret.results) : ret.results[i].status = "skipped"
    /\ \E i \in 1..Len(ret.results) : ret.results[i].status \in {"exists", "created"}

\* C10: once the KMS step has passed, the returned results hold exactly one
\* entry per (agent, owned API-key provider) pair, in agent order then
\* provider order.
C10_OneEntryPerPair ==
    (Done /\ ~KmsFailed) =>
        /\ Len(ret.results) = Len(Pairs)
        /\ \A k \in 1..Len(Pairs) : EntryFor(k)

\* C10 witness: the first agent's provider failed and the second agent's
\* provider was created after it.
C10_Witness ==
    /\ Done
    /\ Len(ret.results) = 2
    /\ ret.results[1].agentName = "A" /\ ret.results[1].status = "error"
    /\ ret.results[2].agentName = "B" /\ ret.results[2].status = "created"

\* the answered calls of this run for the k-th pair
CallsForPair(op, k) == CallsFor(op, Pairs[k].agentName, Pairs[k].providerName)
FailedCallsForPair(k) ==
    { i \in CallsForPair("apiKeyProviderExists", k) \cup CallsForPair("createApiKeyProvider", k) :
        calls[i].outcome # "ok" }

\* C11: setupApiKeyProviders is never rejected by a failure of the existence
\* check or of the create call of a provider: once the KMS step has passed,
\* every provider with such a failed call has an `error` entry, with an
\* error text, in the returned results.
C11_ProviderFailureIsAnErrorEntry ==
    /\ pc # "rejected"
    /\ (Done /\ ~KmsFailed) =>
          \A k \in 1..Len(Pairs) :
              FailedCallsForPair(k) # {} =>
                  /\ EntryFor(k)
                  /\ ret.results[k].status = "error"
                  /\ ret.results[k].error # NoError

\* C11 witness: a completed run in which an existence check threw and, for
\* another provider, the create call threw.
C11_Witness ==
    /\ Done
    /\ \E i \in CallsOf("apiKeyProviderExists") : calls[i].outcome = "throw"
    /\ \E i \in CallsOf("createApiKeyProvider") : calls[i].outcome = "throw"
    /\ \E k \in 1..Len(ret.results) : ret.results[k].status = "error"

\* C12: the entry of a provider that was absent follows the answer of its
\* create call: `created` with no error text on success, `error` with the
\* underlying message on a failure, and `error` with the AWS-credentials
\* message when the failure is classified as missing credentials.
C12_CreateOutcomeDecidesEntry ==
    (Done /\ ~KmsFailed) =>
        \A k \in 1..Len(Pairs) : \A i \in CallsForPair("createApiKeyProvider", k) :
            /\ EntryFor(k)
            /\ calls[i].outcome = "ok" =>
                  ret.results[k].status = "created" /\ ret.results[k].error = NoError
            /\ calls[i].outcome = "fail" =>
                  ret.results[k].status = "error" /\ ret.results[k].error = <<"CreateFailed">>
            /\ calls[i].outcome = "throw" =>
                  ret.results[k].status = "error" /\ ret.results[k].error = <<"RemoteError">>
            /\ calls[i].outcome = "nocreds" =>
                  /\ ret.results[k].status = "error"
                  /\ ret.results[k].error = AwsCredentialsMessage

\* C12 witness: a completed run with a created provider and a provider whose
\* create call failed for missing credentials.
C12_Witness ==
    /\ Done
    /\ \E i \in CallsOf("createApiKeyProvider") : calls[i].outcome = "nocreds"
    /\ \E i \in CallsOf("createApiKeyProvider") : calls[i].outcome = "ok"
    /\ \E k \in 1..Len(ret.results) : ret.results[k].error = AwsCredentialsMessage
    /\ \E k \in 1..Len(ret.results) : ret.results[k].status = "created"

\* the secret the merge of .env.local and the runtime overrides holds for a
\* variable: the override when it defines the variable
ResolvedSecret(envVarName) ==
    IF options.runtimeCredentials[envVarName] # Undef
    THEN options.runtimeCredentials[envVarName]
    ELSE envFile[envVarName]

\* the create calls sent so far carry the resolved secret of their provider
CreateCallsCarryResolvedSecret ==
    \A k \in 1..Len(Pairs) :
        /\ \A i \in CallsForPair("createApiKeyProvider", k) :
               calls[i].apiKey = ResolvedSecret(Pairs[k].envVarName)
        /\ \A c \in InFlightFor(Pairs[k].agentName, Pairs[k].providerName) :
               c.op = "createApiKeyProvider" =>
                   c.apiKey = ResolvedSecret(Pairs[k].envVarName)

\* C13: the API key sent for a provider is the value the merge of the
\* persisted secrets and the runtime overrides holds under the provider's
\* envVarName, the override winning when it defines that name; and no step
\* changes the persisted secrets.
C13_SecretFromMergeNeverWrittenBack ==
    [][CreateCallsCarryResolvedSecret' /\ envFile' = envFile]_vars

\* C13 witness: a completed run that created one provider with an overriding
\* runtime secret and another with its persisted secret, .env.local still
\* holding its own value for the overridden name.
C13_Witness ==
    /\ Done
    /\ envFile["CRED1_KEY"] = "sk-env"
    /\ options.runtimeCredentials["CRED1_KEY"] = "sk-rt"
    /\ \E i \in CallsOf("createApiKeyProvider") :
           calls[i].name = "Cred1" /\ calls[i].apiKey = "sk-rt" /\ calls[i].outcome = "ok"
    /\ \E i \in CallsOf("createApiKeyProvider") :
           calls[i].name = "Cred2" /\ calls[i].apiKey = "sk-env" /\ calls[i].outcome = "ok"

\* the position in Pairs of the provider a call is for
PairOf(call) ==
    CHOOSE k \in 1..Len(Pairs) :
        Pairs[k].agentName = call.agent /\ Pairs[k].providerName = call.name

\* C14: at most one remote call is in flight; the token-vault KMS calls are
\* answered before any provider call is sent; a create call is sent only
\* after the existence check of the same provider has answered; and the calls
\* of a provider are answered before a call of the next provider is sent.
C14_OneCallAtATime ==
    /\ Cardinality(inflight) <= 1
    /\ \A i, j \in 1..Len(calls) :
           (i < j /\ calls[i].op \in ProviderOps) =>
               /\ calls[j].op \in ProviderOps
               /\ PairOf(calls[i]) <= PairOf(calls[j])
    /\ \A j \in CallsOf("createApiKeyProvider") :
           /\ j > 1
           /\ calls[j - 1].op = "apiKeyProviderExists"
           /\ calls[j - 1].outcome = "ok"
           /\ PairOf(calls[j - 1]) = PairOf(calls[j])
    /\ \A c \in inflight :
           /\ c.op \in KmsOps => \A i \in 1..Len(calls) : calls[i].op \in KmsOps
           /\ c.op \in ProviderOps =>
                  \A i \in 1..Len(calls) :
                      calls[i].op \in ProviderOps => PairOf(calls[i]) <= PairOf(c)
           /\ c.op = "createApiKeyProvider" =>
                  /\ calls # <<>>
                  /\ calls[Len(calls)].op = "apiKeyProviderExists"
                  /\ calls[Len(calls)].outcome = "ok"
                  /\ PairOf(calls[Len(calls)]) = PairOf(c)

\* C14 witness: the create call of the second provider is in flight after
\* both KMS calls and both calls of the first provider have answered.
C14_Witness ==
    /\ Len(calls) = 5
    /\ calls[1].op = "CreateKey"
    /\ calls[2].op = "SetTokenVaultKmsKey"
    /\ calls[3].op = "apiKeyProviderExists" /\ calls[3].name = "Cred1"
    /\ calls[4].op = "createApiKeyProvider" /\ calls[4].name = "Cred1"
    /\ calls[5].op = "apiKeyProviderExists" /\ calls[5].name = "Cred2"
    /\ \E c \in inflight : c.op = "createApiKeyProvider" /\ c.name = "Cred2"

\* this run is the one after a terminated run, with the same secrets, and it
\* has completed
CompleteAfterKilled ==
    Done /\ killed.was /\ options.runtimeCredentials = killed.runtimeCredentials

\* C15 (as amended): the providers a terminated run created stay created; the
\* next complete run with the same project and secrets sends no create call
\* for any of them and, when the KMS step passes and the existence check does
\* not fail, reports it `exists`; and it creates a provider that has no
\* remote record when its secret is present, the KMS step passes and its
\* calls succeed.
C15_RecoversAfterTermination ==
    /\ killed.was => killed.created \subseteq remoteProviders
    /\ CompleteAfterKilled =>
        \A k \in 1..Len(Pairs) :
            /\ Pairs[k].providerName \in killed.created =>
                  /\ CallsForPair("createApiKeyProvider", k) = {}
                  /\ (~KmsFailed /\ FailedCallsForPair(k) = {}) =>
                        (EntryFor(k) /\ ret.results[k].status = "exists")
            /\ ( /\ Pairs[k].providerName \notin atStart.remoteProviders
                 /\ ~SecretMissing(k)
                 /\ ~KmsFailed
                 /\ FailedCallsForPair(k) = {} ) =>
                  /\ EntryFor(k)
                  /\ ret.results[k].status = "created"
                  /\ Pairs[k].providerName \in remoteProviders

\* C15 witness: the run after a terminated one reports `exists` for the
\* provider the terminated run created and creates the other one.
C15_Witness ==
    /\ CompleteAfterKilled
    /\ Len(ret.results) = 2
    /\ ret.results[1].providerName \in killed.created
    /\ ret.results[1].status = "exists"
    /\ ret.results[2].providerName \notin killed.created
    /\ ret.results[2].status = "created"

\* C15 (as stated; read with every remote call of the complete run
\* succeeding): the run after a terminated one reports every provider the
\* terminated run created as `exists`, without a create call, and creates
\* every provider that has no remote record.
C15_Original ==
    (CompleteAfterKilled /\ AllCallsOk) =>
        \A k \in 1..Len(Pairs) :
            /\ Pairs[k].providerName \in killed.created =>
                  /\ CallsForPair("createApiKeyProvider", k) = {}
                  /\ EntryFor(k)
                  /\ ret.results[k].status = "exists"
            /\ Pairs[k].providerName \notin atStart.remoteProviders =>
                  /\ EntryFor(k)
                  /\ ret.results[k].status = "created"

\* ------------------------------------------- properties of the teardown

Destroying == operation = "destroy"
TargetName == destroyOptions.target.target.name
\* positions in log of the calls of one operation with one outcome
LoggedWith(op, outcome) ==
    { i \in 1..Len(log) : log[i].op = op /\ log[i].outcome = outcome }
ToolkitThrew == LoggedWith("initialize", "throw") \cup LoggedWith("destroy", "throw") # {}
CleanupThrew ==
    LoggedWith("readDeployedState", "throw") \cup LoggedWith("writeDeployedState", "throw") # {}

\* C16: destroyTarget changes DeployedState only after toolkit.destroy has
\* answered without throwing; when initialize or destroy throws, the call is
\* rejected with that error and DeployedState is what it was.
C16_EntryRemovedOnlyAfterDestroy ==
    Destroying =>
        /\ deployedState # stateBefore => LoggedWith("destroy", "ok") # {}
        /\ ToolkitThrew =>
              /\ at = "rejected"
              /\ thrown = <<"ToolkitError">>
              /\ deployedState = stateBefore

\* C16 witness: destroy threw for a target that has an entry.
C16_Witness ==
    /\ Destroying
    /\ LoggedWith("destroy", "throw") # {}
    /\ HasEntry(stateBefore, TargetName)

\* C17: destroyTarget with a CDK project directory that does not exist is
\* rejected with the `CDK project not found` error, no toolkit call and no
\* access to DeployedState having been made.
C17_MissingCdkProjectFailsFast ==
    (Destroying /\ destroyOptions.cdkProjectDir \notin dirs) =>
        /\ at = "rejected"
        /\ thrown = CdkProjectNotFound
        /\ log = <<>>
        /\ deployedState = stateBefore

\* C17 witness: a destroy without the directory, of a target that has an
\* entry and a stack.
C17_Witness ==
    /\ Destroying
    /\ destroyOptions.cdkProjectDir \notin dirs
    /\ HasEntry(deployedState, TargetName)
    /\ destroyOptions.target.stack.stackName \in remoteStacks

\* C18 (as amended): after destroyTarget has returned with its clean-up
\* having read and written DeployedState without a failure, the entry of the
\* destroyed target is absent; when the clean-up failed the call has
\* returned all the same and the entry is what it was.
C18_EntryAbsentWhenCleanupSucceeds ==
    (Destroying /\ at = "returned") =>
        /\ ~CleanupThrew => ~HasEntry(deployedState, TargetName)
        /\ CleanupThrew => deployedState = stateBefore

\* C18 witness: destroyTarget has returned and has deleted the entry.
C18_Witness ==
    /\ Destroying
    /\ at = "returned"
    /\ HasEntry(stateBefore, TargetName)
    /\ ~HasEntry(deployedState, TargetName)
    /\ LoggedWith("writeDeployedState", "ok") # {}

\* C18 (as stated): after destroyTarget has returned, the entry of the
\* destroyed target is absent, also when the clean-up failed.
C18_Original ==
    (Destroying /\ at = "returned") => ~HasEntry(deployedState, TargetName)

\* C19: when toolkit.destroy has answered and reading or writing
\* DeployedState then throws, destroyTarget returns without an error.
C19_CleanupFailureSwallowed ==
    (Destroying /\ CleanupThrew) =>
        /\ LoggedWith("destroy", "ok") # {}
        /\ at = "returned"
        /\ thrown = NoError

\* C19 witness: the write of DeployedState threw after a destroy.
C19_Witness ==
    /\ Destroying
    /\ LoggedWith("destroy", "ok") # {}
    /\ LoggedWith("writeDeployedState", "throw") # {}

\* the targets whose lookup found a stack, in the order of the lookups
FoundTargets ==
    LET WasFound(e) == e.op = "findStack" /\ e.outcome = "found"
        found == SelectSeq(log, WasFound)
    IN  [k \in 1..Len(found) |-> DeployedTarget(found[k].arg, DiscoveredStack(found[k].arg))]

\* C20: a lookup that fails neither stops discoverDeployedTargets nor rejects
\* it: the call is rejected only before the first lookup, every configured
\* target is looked up in order, and the returned list holds, in that order,
\* exactly the targets whose lookup returned a stack.
C20_DiscoveryIsBestEffort ==
    operation = "discover" =>
        /\ at = "rejected" => log = <<>>
        /\ \A i \in 1..Len(log) : log[i].op = "findStack" /\ log[i].arg = targets[i]
        /\ at = "returned" =>
              /\ Len(log) = Len(targets)
              /\ deployedTargets = FoundTargets

\* C20 witness: of two targets the lookup of the first threw and the second
\* was found and returned.
C20_Witness ==
    /\ operation = "discover"
    /\ at = "returned"
    /\ Len(log) = 2
    /\ log[1].outcome = "throw"
    /\ log[2].outcome = "found"
    /\ Len(deployedTargets) = 1
    /\ deployedTargets[1].target.name = targets[2]

\* the destroy calls answered so far asked for the stack of the target, by a
\* pattern that must match
DestroyAsksForTargetStack ==
    \A i \in 1..Len(log) :
        log[i].op = "destroy" =>
            /\ log[i].arg.strategy = "PATTERN_MUST_MATCH"
            /\ log[i].arg.patterns = << destroyOptions.target.stack.stackName >>

\* C21: every toolkit.destroy of destroyTarget selects by the one pattern
\* that is the discovered stack name of the given target, with the
\* must-match strategy, and a step removes no stack but that one.
C21_DestroyScopedToTargetStack ==
    [][ /\ DestroyAsksForTargetStack'
        /\ remoteStacks' # remoteStacks =>
              /\ remoteStacks' = remoteStacks \ {destroyOptions.target.stack.stackName}
              /\ at = "destroy" ]_vars

\* C21 witness: the stack of the target has been destroyed and the stack of
\* the other target is still there.
C21_Witness ==
    /\ Destroying
    /\ LoggedWith("destroy", "ok") # {}
    /\ TargetName = "dev"
    /\ StackNameOf("dev") \notin remoteStacks
    /\ StackNameOf("prod") \in remoteStacks

\* --------------------------------------- properties of the resource graph

\* the references of all agents to a resource, as (agent, position) pairs
ReferencesTo(p, kind, name, relation) ==
    { x \in (1..Len(p.agents)) \X (1..MaxChanges + 1) :
        /\ x[2] <= Len(RefsOf(p.agents[x[1]], kind))
        /\ RefsOf(p.agents[x[1]], kind)[x[2]].name = name
        /\ RefsOf(p.agents[x[1]], kind)[x[2]].relation = relation }
Unreferenced(p, kind, name) ==
    ReferencesTo(p, kind, name, "own") \cup ReferencesTo(p, kind, name, "use") = {}
Gone(p, kind, name) == name \notin NamesIn(p, kind) /\ Unreferenced(p, kind, name)
Removing == command.op = "remove"
HadDependents ==
    /\ command.name \in NamesIn(specBefore, command.kind)
    /\ listDependents(specBefore, command.kind, command.name) # <<>>

\* C22: a remove of a resource that other agents reference fails with
\* HasDependentsError and leaves the project as it was, unless force is
\* given; with force the entry and every reference to it are gone.  A remove
\* never leaves the project with part of the resource.
C22_DependentsNeedForce ==
    Removing =>
        /\ (HadDependents /\ ~command.force) =>
              /\ command.result = Failed("HasDependentsError")
              /\ agentcoreJson = specBefore
        /\ (HadDependents /\ command.force) =>
              /\ command.result = Ok
              /\ Gone(agentcoreJson, command.kind, command.name)
        /\ \/ agentcoreJson = specBefore
           \/ Gone(agentcoreJson, command.kind, command.name)

\* C22 witness: memory M of agent A, used by B, was removed with force.
C22_Witness ==
    /\ Removing
    /\ command.kind = "memory" /\ command.name = "M" /\ command.force
    /\ OwnersOf(specBefore, "memory", "M") = {"A"}
    /\ listDependents(specBefore, "memory", "M") = <<"B">>
    /\ command.result = Ok

\* every reference of an agent names a resource of the project
NoDanglingReference(p) ==
    \A kind \in Kinds : \A i \in 1..Len(p.agents) :
        \A j \in 1..Len(RefsOf(p.agents[i], kind)) :
            RefsOf(p.agents[i], kind)[j].name \in NamesIn(p, kind)

\* C23 (as amended): after any sequence of add, bind and remove operations,
\* every identity provider name of the project has at most one `own`
\* reference (none when it was added without an owner), and no reference
\* points at a provider that does not exist.
C23_AtMostOneOwner ==
    /\ \A n \in NamesIn(agentcoreJson, "identity") :
           Cardinality(ReferencesTo(agentcoreJson, "identity", n, "own")) <= 1
    /\ NoDanglingReference(agentcoreJson)

\* C23 witness: a provider with its owner and a user, next to one that was
\* added without an owner.
C23_Witness ==
    /\ Cardinality(ReferencesTo(agentcoreJson, "identity", "M", "own")) = 1
    /\ Cardinality(ReferencesTo(agentcoreJson, "identity", "M", "use")) = 1
    /\ "m" \in NamesIn(agentcoreJson, "identity")
    /\ ReferencesTo(agentcoreJson, "identity", "m", "own") = {}

\* C23 (as stated): every identity provider name of the project has exactly
\* one `own` reference, and no `use` reference points at a provider that
\* does not exist.
C23_Original ==
    /\ \A n \in NamesIn(agentcoreJson, "identity") :
           Cardinality(ReferencesTo(agentcoreJson, "identity", n, "own")) = 1
    /\ NoDanglingReference(agentcoreJson)

Adding == command.op = "add"

\* the entries of a collection that have a name
EntriesNamed(p, kind, name) ==
    { i \in 1..Len(Collection(p, kind)) : Collection(p, kind)[i].name = name }

\* C24: a credential or memory that add has accepted is an entry of its
\* top-level collection, a credential with type ApiKeyCredentialProvider;
\* a remove of a resource without dependents succeeds and leaves no entry of
\* that name in the collection.
C24_AddedThenRemoved ==
    /\ (Adding /\ command.result.success) =>
          /\ EntriesNamed(agentcoreJson, command.kind, command.name) # {}
          /\ command.kind = "identity" =>
                \A i \in EntriesNamed(agentcoreJson, "identity", command.name) :
                    agentcoreJson.credentials[i].type = "ApiKeyCredentialProvider"
    /\ ( /\ Removing
         /\ command.name \in NamesIn(specBefore, command.kind)
         /\ listDependents(specBefore, command.kind, command.name) = <<>> ) =>
          /\ command.result = Ok
          /\ EntriesNamed(agentcoreJson, command.kind, command.name) = {}

\* C24 witness: a credential that was added has been removed, the project
\* still holding a memory.
C24_Witness ==
    /\ Removing
    /\ command.kind = "identity"
    /\ command.name \in NamesIn(specBefore, "identity")
    /\ command.result = Ok
    /\ agentcoreJson.memories # <<>>

\* C25: a remove of a name that is not in its collection fails with a
\* not-found error, exit code 1 and success false, and leaves the project
\* as it was.
C25_RemoveOfAbsentNameFails ==
    (Removing /\ command.name \notin NamesIn(specBefore, command.kind)) =>
        /\ command.result = Failed("NotFoundError")
        /\ command.result.exitCode = 1
        /\ ~command.result.success
        /\ agentcoreJson = specBefore

\* C25 witness: a remove of a name that only another collection and another
\* spelling hold.
C25_Witness ==
    /\ Removing
    /\ command.kind = "memory" /\ command.name = "M"
    /\ "M" \notin NamesIn(specBefore, "memory")
    /\ "m" \in NamesIn(specBefore, "memory")
    /\ "M" \in NamesIn(specBefore, "identity")

\* C26: after any sequence of add and remove operations the names of a
\* collection are non-empty and pairwise different, names that differ in
\* case being different; an add of a name its collection holds fails with
\* DuplicateNameError and leaves the project as it was.
C26_NamesUnique ==
    /\ \A kind \in Kinds :
          /\ "" \notin NamesIn(agentcoreJson, kind)
          /\ \A n \in NamesIn(agentcoreJson, kind) :
                 Cardinality(EntriesNamed(agentcoreJson, kind, n)) = 1
    /\ (Adding /\ command.name \in NamesIn(specBefore, command.kind)) =>
          /\ command.result = Failed("DuplicateNameError")
          /\ agentcoreJson = specBefore
    /\ ( /\ Adding
         /\ command.name # ""
         /\ command.name \notin NamesIn(specBefore, command.kind) ) =>
          command.result = Ok

\* C26 witness: an add of M was refused while the collection holds M and m.
C26_Witness ==
    /\ Adding
    /\ command.name = "M"
    /\ command.result = Failed("DuplicateNameError")
    /\ NamesIn(agentcoreJson, command.kind) = {"M", "m"}


\* The last operation was a bind whose target owns the resource.
BoundToOwner ==
    /\ command.op = "bind"
    /\ command.agent \in OwnersOf(specBefore, command.kind, command.name)

\* The flow has just issued its attach: it shows the answer.
FlowAttached ==
    /\ flowKind # "none"
    /\ flow.name \in {"bind-success", "error"}
    /\ command.op = "bind"

\* C27: a resource is never bound to its owner. A bind whose target owns the
\* resource fails and leaves the project as it was; the resources a bind flow
\* offers for the selected target agent are none of that agent's own; and
\* the attach a bind flow issues is for the flow's kind, with a target that
\* does not own the resource.
C27_NeverBoundToOwner ==
    /\ BoundToOwner =>
          /\ command.result = Failed("SelfBindError")
          /\ agentcoreJson = specBefore
    /\ \A i \in 1..Len(ResourceItems) :
          flow.targetAgent \notin OwnersOf(agentcoreJson, flowKind, ResourceItems[i].name)
    /\ FlowAttached =>
          /\ command.kind = flowKind
          /\ command.agent \notin OwnersOf(specBefore, command.kind, command.name)

\* C27 witness: a memory flow has attached a memory of another agent to a
\* target agent that owns a memory itself, which the flow did not offer.
C27_Witness ==
    /\ flowKind = "memory"
    /\ flow.name = "bind-success"
    /\ command.op = "bind"
    /\ command.result.success
    /\ OwnersOf(specBefore, "memory", command.name) # {}
    /\ \E n \in NamesIn(specBefore, "memory") :
          command.agent \in OwnersOf(specBefore, "memory", n)
    /\ \E i \in 1..Len(agentcoreJson.agents) :
          /\ agentcoreJson.agents[i].name = command.agent
          /\ Holds(agentcoreJson.agents[i], "memory", command.name, "use")


\* A result entry or a provider call is for one of the (agent, owned API-key
\* provider) pairs of the project.
ForSomePair(agentName, providerName) ==
    \E k \in 1..Len(Pairs) :
        Pairs[k].agentName = agentName /\ Pairs[k].providerName = providerName

OnlyPairs(rs) == \A i \in 1..Len(rs) : ForSomePair(rs[i].agentName, rs[i].providerName)

\* C28: setupApiKeyProviders touches only the identity references with
\* relation `own` and variant ApiKeyCredentialProvider: every existence check
\* and every create call, in flight or answered, and every result entry of
\* the provider loop and of the returned value (the TokenVault entry of a
\* failed KMS step aside) is for such a reference of its agent, and the
\* returned entries are no more than those references.
C28_OnlyOwnedApiKeyProviders ==
    /\ \A c \in inflight : c.op \in ProviderOps => ForSomePair(c.agent, c.name)
    /\ \A i \in 1..Len(calls) :
          calls[i].op \in ProviderOps => ForSomePair(calls[i].agent, calls[i].name)
    /\ OnlyPairs(results)
    /\ OnlyPairs(agentResults)
    /\ (Done /\ ~KmsFailed) => OnlyPairs(ret.results) /\ Len(ret.results) = Len(Pairs)

\* C28 witness: a run over agent A, which uses Cred2, owns Cred1 and owns an
\* OAuth provider, and agent B, which owns Cred2, has returned two entries
\* after an existence check for each of the two owned API-key providers.
C28_Witness ==
    /\ Done
    /\ ~KmsFailed
    /\ projectSpec.agents = << Agent("A", <<UseCred2, OwnCred1, OwnOAuth>>),
                               Agent("B", <<OwnCred2>>) >>
    /\ Len(ret.results) = 2
    /\ CallsFor("apiKeyProviderExists", "A", "Cred1") # {}
    /\ CallsFor("apiKeyProviderExists", "B", "Cred2") # {}
    /\ CallsFor("apiKeyProviderExists", "A", "Cred2") = {}


\* The project records an identity KMS key ARN, and a run has been started.
RecordedKeyRun == projectSpec.identityKmsKeyArn # NoArn /\ pc \notin {"idle", "kms"}

\* positions in `calls` of the calls that set the key of the token vault
VaultCalls == CallsOf("SetTokenVaultKmsKey")

\* C29: when the project records an identity KMS key ARN, a run goes through
\* the KMS step whether or not enableKmsEncryption is set: it sends no
\* CreateKey and no key is made, it asks the token vault to use the recorded
\* ARN and no other, and when the KMS step succeeds and the run returns, the
\* returned kmsKeyArn is the recorded ARN.
C29_RecordedKeyIsUsed ==
    RecordedKeyRun =>
        /\ CallsOf("CreateKey") = {}
        /\ \A c \in inflight : c.op # "CreateKey"
        /\ kmsKeys = 0
        /\ \/ \E c \in inflight :
                 c.op = "SetTokenVaultKmsKey" /\ c.arn = projectSpec.identityKmsKeyArn
           \/ VaultCalls # {}
        /\ \A i \in VaultCalls : calls[i].arn = projectSpec.identityKmsKeyArn
        /\ (Done /\ ~KmsFailed) =>
              /\ ret.kmsKeyArn = projectSpec.identityKmsKeyArn
              /\ tokenVault = Vault("CustomerManagedKey", projectSpec.identityKmsKeyArn)

\* C29 witness: a run without enableKmsEncryption on a project that records
\* the ARN has configured the vault and returned after the provider loop.
C29_Witness ==
    /\ Done
    /\ ~KmsFailed
    /\ ~options.enableKmsEncryption
    /\ projectSpec.identityKmsKeyArn = RecordedArn
    /\ Len(ret.results) > 0
    /\ VaultCalls # {}
    /\ ret.kmsKeyArn = RecordedArn


\* ------------------------------------------------- getMissingCredentials

MissingCredential(providerName, envVarName, agentName) ==
    [providerName |-> providerName, envVarName |-> envVarName, agentName |-> agentName]

\* Line 224: !envVars[provider.envVarName]
AlwaysMissing(envVars, provider) == TRUE
NotInEnvFile(envVars, provider) == Falsy(envVars[provider.envVarName])

\* Lines 219-233: the owned API-key providers of one agent that have no
\* secret in the file.
MissingOfAgent(agent, envVars) ==
    LET Wanted(p) == p.relation = "own" /\ p.variant = "ApiKeyCredentialProvider"
        Missing(p) == NotInEnvFile(envVars, p)
        ps == SelectSeq(SelectSeq(agent.identityProviders, Wanted), Missing)
    IN  [k \in 1..Len(ps) |-> MissingCredential(ps[k].name, ps[k].envVarName, agent.name)]

\* getMissingCredentials(projectSpec, configBaseDir), lines 211-235, with
\* envVars the secrets file it reads.
RECURSIVE getMissingCredentials(_, _)
getMissingCredentials(agents, envVars) ==
    IF agents = <<>> THEN <<>>
    ELSE MissingOfAgent(Head(agents), envVars) \o getMissingCredentials(Tail(agents), envVars)

\* The providers the returned value reports as skipped, in order; the
\* variable is the one the entry's error text names.
SkippedProviders ==
    LET IsSkipped(r) == r.status = "skipped"
        rs == SelectSeq(ret.results, IsSkipped)
    IN  [k \in 1..Len(rs) |->
            MissingCredential(rs[k].providerName, rs[k].error[2], rs[k].agentName)]

missing == getMissingCredentials(projectSpec.agents, envFile)

Listed(m) == \E k \in 1..Len(missing) : missing[k] = m

\* The override of the run defines the variable as the empty string.
EmptyOverride(envVarName) == options.runtimeCredentials[envVarName] = ""

\* C30 as stated: a returned run without runtime overrides reports as skipped
\* exactly what getMissingCredentials returns, in order; with overrides,
\* every skipped provider is listed by getMissingCredentials.
C30_Original ==
    Done =>
        IF options.runtimeCredentials = NoRuntime
        THEN SkippedProviders = missing
        ELSE \A k \in 1..Len(SkippedProviders) : Listed(SkippedProviders[k])

\* C30 (as amended): of a returned run whose KMS step did not fail, without
\* runtime overrides the providers reported as skipped are exactly the
\* triples getMissingCredentials returns for the same secrets file, in the
\* same order; with runtime overrides, every skipped provider is listed by
\* getMissingCredentials unless the override defines its variable as the
\* empty string. A run whose KMS step failed reports no provider as skipped.
C30_SkippedAreTheMissing ==
    Done =>
        IF KmsFailed THEN SkippedProviders = <<>>
        ELSE IF options.runtimeCredentials = NoRuntime
        THEN SkippedProviders = missing
        ELSE \A k \in 1..Len(SkippedProviders) :
                 \/ Listed(SkippedProviders[k])
                 \/ EmptyOverride(SkippedProviders[k].envVarName)

\* C30 witness: a run without overrides has returned two skipped providers,
\* the two that getMissingCredentials returns.
C30_Witness ==
    /\ Done
    /\ ~KmsFailed
    /\ options.runtimeCredentials = NoRuntime
    /\ Len(SkippedProviders) = 2
    /\ SkippedProviders = missing


\* positions in log of the writes of DeployedState, answered or thrown
StateWrites == { i \in 1..Len(log) : log[i].op = "writeDeployedState" }

\* C31: destroyTarget changes DeployedState only by deleting the entry keyed
\* by the name of the destroyed target: at every point of the call the entry
\* of every other target is what it was when the call started and the file
\* holds either what it held or that without the target's entry; and when
\* the target had no entry, DeployedState is never written.
C31_OnlyTargetEntryDeleted ==
    Destroying =>
        /\ \A n \in TargetNames \ {TargetName} : deployedState[n] = stateBefore[n]
        /\ deployedState \in {stateBefore, Deleted(stateBefore, TargetName)}
        /\ stateBefore[TargetName] = NoEntry =>
              /\ StateWrites = {}
              /\ at # "writeDeployedState"
              /\ deployedState = stateBefore

\* C31 witness: destroyTarget has returned after a destroy that answered, for
\* a target without an entry while the other target has one, with
\* DeployedState read and not written.
C31_Witness ==
    /\ Destroying
    /\ at = "returned"
    /\ LoggedWith("destroy", "ok") # {}
    /\ LoggedWith("readDeployedState", "ok") # {}
    /\ stateBefore[TargetName] = NoEntry
    /\ \E n \in TargetNames \ {TargetName} : stateBefore[n] # NoEntry
    /\ StateWrites = {}


\* writeProjectSpec has not been called.
NothingWritten ==
    /\ runs = 0
    /\ inFlightWrites = {}
    /\ writeLog = <<>>

\* C32: in a remove flow with dryRun the phase is checking and then dry-run
\* (not-found when there is no project), whether or not force is set: once
\* checkProject has ended on a project the phase is dry-run, and
\* writeProjectSpec is never called.
C32_DryRunNeverWrites ==
    removeOptions.dryRun =>
        /\ phase \in {"unmounted", "checking", "not-found", "dry-run"}
        /\ phase = "not-found" => projectFile = NoProject
        /\ (cp = "ended" /\ phase # "unmounted" /\ projectFile # NoProject) =>
              phase = "dry-run"
        /\ NothingWritten

\* C32 witness: a flow with dryRun and force has ended its check of a
\* project with a deployed stack in dry-run.
C32_Witness ==
    /\ removeOptions.dryRun
    /\ removeOptions.force
    /\ phase = "dry-run"
    /\ cp = "ended"
    /\ hasDeployedResources
    /\ effectDeps = << "dry-run", "P" >>
    /\ NothingWritten


\* C33: in a remove flow without force and without dryRun nothing is written
\* before confirmRemoval is called, and the check of a project ends in
\* confirm; with force and without dryRun the phase is never confirm,
\* confirmRemoval is not called, and the check of a project ends in
\* removing; and a flow without a project is in not-found once the effect of
\* the mount has run, with nothing written.
C33_ConfirmBeforeWrite ==
    /\ (~removeOptions.force /\ ~removeOptions.dryRun) =>
          /\ confirmCalls = 0 => NothingWritten /\ phase # "removing"
          /\ (cp = "ended" /\ confirmCalls = 0 /\ projectFile # NoProject
                 /\ phase # "unmounted") => phase = "confirm"
    /\ (removeOptions.force /\ ~removeOptions.dryRun) =>
          /\ phase # "confirm"
          /\ confirmCalls = 0
          /\ (cp = "ended" /\ writeLog = <<>> /\ projectFile # NoProject
                 /\ phase # "unmounted") => phase = "removing"
    /\ (projectFile = NoProject /\ phase # "unmounted") =>
          /\ cp = "ended" => phase = "not-found"
          /\ phase \in {"checking", "not-found"}
          /\ NothingWritten

\* C33 witness: a flow without force and without dryRun waits in confirm
\* after its check, the removal effect has run for that phase, and nothing
\* is written.
C33_Witness ==
    /\ ~removeOptions.force
    /\ ~removeOptions.dryRun
    /\ phase = "confirm"
    /\ effectDeps = << "confirm", "P" >>
    /\ confirmCalls = 0
    /\ NothingWritten


\* The project could not be read by checkProject.
NameNotRead ==
    /\ itemsToRemove # <<>>
    /\ itemsToRemove[1] = Item(0, <<"AgentCore project (corrupted or incomplete)">>)

\* The step is the answer of a writeProjectSpec call that did not throw.
WriteAnswered ==
    /\ Len(writeLog') = Len(writeLog) + 1
    /\ writeLog'[Len(writeLog')].outcome = "ok"

\* C34: no step of the remove flow changes the deployment targets, the
\* deployed stacks or DeployedState, and the project specification changes
\* only by a write of the removal step, after which it is the empty default:
\* version 1, no agents, memories or credentials, and as name the name the
\* project had, or `Project` when checkProject could not read the project.
C34_WritesOnlyTheDefaultSpec ==
    [][ /\ targets' = targets
        /\ deployedState' = deployedState
        /\ remoteStacks' = remoteStacks
        /\ projectFile' # projectFile => WriteAnswered
        /\ WriteAnswered =>
              /\ projectFile'.version = 1
              /\ projectFile'.agents = <<>>
              /\ projectFile'.memories = <<>>
              /\ projectFile'.credentials = <<>>
              /\ projectFile'.name = IF NameNotRead THEN "Project" ELSE projectFile.name
      ]_vars

\* C34 witness: the removal step has reset a project with agents and a
\* memory, keeping its name, while targets and a DeployedState entry exist.
C34_Witness ==
    /\ phase = "complete"
    /\ Len(writeLog) = 1
    /\ writeLog[1].outcome = "ok"
    /\ Len(itemsToRemove) = 4
    /\ projectFile = ProjectSpecOf("P", <<>>, <<>>, <<>>)
    /\ targets # <<>>
    /\ deployedState["prod"] # NoEntry


\* The step shows the outcome of the last write.
StepShowsOutcome ==
    /\ writeLog # <<>>
    /\ Len(steps) = 1
    /\ IF writeLog[Len(writeLog)].outcome = "ok"
       THEN steps[1].status = "success" /\ ~hasError
       ELSE steps[1].status = "error" /\ hasError

\* C35: every remove flow leaves checking, to not-found, dry-run, confirm or
\* removing, whatever the reads and the stack lookups of checkProject
\* answer or throw; a flow in removing reaches complete; and in complete the
\* step is a success when the write was answered and an error, with hasError,
\* when it threw.
C35_LeavesCheckingAndCompletes ==
    /\ (phase = "checking") ~> (phase \in {"not-found", "dry-run", "confirm", "removing"})
    /\ (phase = "removing") ~> (phase = "complete")
    /\ [](phase = "complete" => StepShowsOutcome)
    /\ [][phase = "checking" =>
             phase' \in {"checking", "not-found", "dry-run", "confirm", "removing"}]_vars

\* C35 witness: a forced flow whose read of the project threw has reached
\* complete with a failed write, the step an error.
C35_Witness ==
    /\ removeOptions.force
    /\ NameNotRead
    /\ phase = "complete"
    /\ writeLog # <<>>
    /\ writeLog[Len(writeLog)].outcome = "throw"
    /\ hasError


\* writeProjectSpec calls of the flow, answered or not
WriteCalls == Len(writeLog) + Cardinality(inFlightWrites)

\* C36 as stated: within one remove flow writeProjectSpec is called at most
\* once, whenever confirmRemoval is called and whenever the effect re-runs.
C36_Original == WriteCalls <= 1

\* C36 witness of the divergence: the flow is complete after two answered
\* writes of the project specification.
C36_TwoWrites ==
    /\ phase = "complete"
    /\ Len(writeLog) = 2
    /\ writeLog[1].outcome = "ok"
    /\ writeLog[2].outcome = "ok"


\* An agent that targets Python and has a CodeZip runtime with an entrypoint.
PythonCodeZip(a) ==
    /\ a.targetLanguage = "Python"
    /\ a.runtime.artifact = "CodeZip"
    /\ a.runtime.entrypoint # ""

\* A name was given to the call.
NameGiven == devArgs.agentName \notin {NoName, ""}
\* positions in the project of the agents of the given name / of the
\* supported agents
NamedAt ==
    { i \in 1..Len(devArgs.project.agents) :
        devArgs.project.agents[i].name = devArgs.agentName }
SupportedAt ==
    { i \in 1..Len(devArgs.project.agents) : PythonCodeZip(devArgs.project.agents[i]) }
Min(S) == CHOOSE i \in S : \A j \in S : i <= j

\* hasConfig is true only for a Python CodeZip agent with an entrypoint of
\* the project, and then module is that entrypoint.
ConfigOnlyForSupported ==
    (devCall.ended = "returned" /\ devCall.config.hasConfig) =>
        \E i \in SupportedAt :
            /\ devCall.config.agentName = << devArgs.project.agents[i].name >>
            /\ devCall.config.module = devArgs.project.agents[i].runtime.entrypoint
            /\ devCall.config.isPython

\* Without a name the first supported agent in project order is picked; with
\* none to pick the default configuration is returned.
FirstSupportedPicked ==
    (devCall.ended # "none" /\ ~NameGiven /\ devArgs.project.loaded) =>
        /\ devCall.ended = "returned"
        /\ IF SupportedAt # {}
           THEN /\ devCall.config.hasConfig
                /\ devCall.config.agentName =
                       << devArgs.project.agents[Min(SupportedAt)].name >>
           ELSE devCall.config = DefaultConfig(<<"proj", "_Agent">>, devArgs.workingDir)

\* C38 as stated: a named agent that is absent from the project or is
\* unsupported raises an error, whether or not a project is loaded.
C38_Original ==
    /\ ConfigOnlyForSupported
    /\ FirstSupportedPicked
    /\ (devCall.ended # "none" /\ NameGiven
           /\ (NamedAt = {} \/ ~PythonCodeZip(devArgs.project.agents[Min(NamedAt)]))) =>
          devCall.ended = "thrown"

\* C38 (as amended): with a project loaded, hasConfig is true only for a
\* Python CodeZip agent with an entrypoint, module being that entrypoint; a
\* named agent that is absent or unsupported raises an error and a supported
\* one is the agent of the configuration; without a name the first supported
\* agent in project order is picked, and with none the default configuration
\* is returned.  With no project loaded nothing is raised: the default
\* configuration is returned, under the given name if there is one.
C38_DevConfigOfSupportedAgent ==
    /\ ConfigOnlyForSupported
    /\ FirstSupportedPicked
    /\ (devCall.ended # "none" /\ NameGiven /\ devArgs.project.loaded) =>
          IF NamedAt = {} \/ ~PythonCodeZip(devArgs.project.agents[Min(NamedAt)])
          THEN devCall.ended = "thrown"
          ELSE /\ devCall.ended = "returned"
               /\ devCall.config.hasConfig
               /\ devCall.config.agentName = << devArgs.agentName >>
    /\ (devCall.ended # "none" /\ ~devArgs.project.loaded) =>
          /\ devCall.ended = "returned"
          /\ ~devCall.config.hasConfig
          /\ devCall.config.module = "src.main:app"
          /\ devCall.config.agentName =
                 IF devArgs.agentName # NoName THEN << devArgs.agentName >>
                 ELSE <<"proj", "_Agent">>

\* C38 witness: without a name, the second agent of the project is picked
\* because the first, a TypeScript agent, is not supported.
C38_Witness ==
    /\ devCall.ended = "returned"
    /\ devArgs.agentName = NoName
    /\ Len(devArgs.project.agents) = 2
    /\ devArgs.project.agents[1].targetLanguage = "TypeScript"
    /\ devCall.config.hasConfig
    /\ devCall.config.agentName = <<"A">>
    /\ devCall.config.module = "main.py:app"


\* The secret is hidden by default: the show toggle is off and nothing is
\* revealed.
MaskedByDefault == ~showValue /\ secretProps.revealChars = 0

\* the characters a screen shows, line after line
RECURSIVE ScreenText(_)
ScreenText(sc) ==
    IF sc = <<>> THEN <<>>
    ELSE sc[1].before \o sc[1].cursor \o sc[1].after \o ScreenText(Tail(sc))

\* C39: while the show toggle is off and revealChars is 0, two secrets of
\* the same length are displayed alike at every cursor position.
C39_Original == MaskedByDefault => screen = twinScreen

\* C39 witness: masked by default, yet with the cursor before the end the
\* screen shows the secret itself and differs from the screen of its twin.
C39_SecretShown ==
    /\ MaskedByDefault
    /\ Len(value) = 2
    /\ cursor = 1
    /\ ScreenText(screen) = value
    /\ screen # twinScreen

\* the lines of the screen that hold the cursor
CursorLines == { i \in 1..Len(screen) : screen[i].cursor # <<>> }

\* C40: for every non-empty value and every cursor position, exactly one
\* rendered line contains the cursor.
C40_Original == (value # <<>> /\ screen # <<>>) => Cardinality(CursorLines) = 1

\* C40 witness: the cursor stands at the end of a value of LINE_WIDTH
\* characters and no line of the screen holds it.
C40_NoCursorLine ==
    /\ Len(value) = LINE_WIDTH
    /\ cursor = LINE_WIDTH
    /\ Len(screen) = 1
    /\ CursorLines = {}


\* The flow is open on a project without an owned resource of its kind.
NothingToBind == flowKind # "none" /\ Owned(flowKind) = <<>>

\* bind-select-agent and the states after it
BindStates ==
    {"bind-select-agent", "bind-select-resource", "bind-select-access",
     "bind-enter-envvar", "bind-success"}

\* C37: when no owned resource exists to bind, the flow is in none of the
\* bind states, from bind-select-agent on.
C37_Original == NothingToBind => flow.name \notin BindStates

\* C37 witness: with nothing to bind, the bind mode was selected from
\* mode-select and an agent chosen; the list of resources to bind is empty.
C37_BindScreenWithNothingToBind ==
    /\ NothingToBind
    /\ flow.name = "bind-select-resource"
    /\ flow.targetAgent = "A"
    /\ ResourceItems = <<>>

====
